---- MODULE Spec2Model ----
(***************************************************************************)
(* PEX interview core of obsidian-hermes: the session state machine of     *)
(* src/services/pexState.ts driven through the tool executors of           *)
(* src/tools/pex_interview.ts.                                             *)
(*                                                                         *)
(* Vertex names are written in ASCII: "Flow" is "Flow=dP/R", "Tau" is      *)
(* "tau=V/Q", "Cl" is "Cl=ExQ", the hyphenated names lose their hyphen.    *)
(* ProbeResult.level, .answerSummary and .timestamp are written once and   *)
(* never read by the operations modelled here; they are left out of the    *)
(* log entries.  The same holds for college, domains, depth and startedAt  *)
(* of PexSessionState.                                                     *)
(*                                                                         *)
(* The BackgroundAnalyzer of the same file is modelled with its belief     *)
(* state and the analyzeProbe calls whose generateContent round trip is    *)
(* still open.  LayerProbe.question, .answerSummary and .timestamp and the *)
(* reasoning and followUpAngles of a ProbeAnalysis are texts nothing       *)
(* branches on; they are left out.                                         *)
(***************************************************************************)
EXTENDS Integers, Sequences, FiniteSets, TLC

VARIABLES phase, vertexQueue, currentVertexIndex, vertices, probeHistory, threw,
          vertexBeliefs, calls, injection

vars == <<phase, vertexQueue, currentVertexIndex, vertices, probeHistory, threw,
          vertexBeliefs, calls, injection>>

\* The PexSessionState held in the module-level variable currentState.
currentState == <<phase, vertexQueue, currentVertexIndex, vertices, probeHistory>>

\* BackgroundAnalyzer.beliefState (sessionInsights is never written)
beliefState == << vertexBeliefs >>

\* The analyzer's side: its belief state, the promises analyzeProbe returned
\* and the last text generateContextInjection produced.
analyzerVars == <<vertexBeliefs, calls, injection>>

-----------------------------------------------------------------------------
(* Bounds of the model *)

\* Spec offers recordProbe while the probe log is shorter than this.
MaxLog == 2

\* Spec offers advanceVertex while the pointer is below this.
MaxIndex == 4

\* SpecProbe offers recordProbe while the probe log is shorter than this.
MaxProbes == 4

\* SpecDriver offers recordProbe while the probe log is shorter than this.
MaxDriverProbes == 6

\* SpecAnalyzer offers analyzeProbe while fewer calls than this were made.
MaxCalls == 2

\* SpecOverlap offers analyzeProbe while fewer calls than this were made.
MaxOverlap == 3

\* SpecWalk offers recordProbe while the probe log is shorter than this.
MaxWalkProbes == 3

\* SpecWalk offers advanceVertex while the pointer is below this.
MaxWalkIndex == 2

\* SpecQueue offers advanceVertex while the pointer is below this.
MaxQueueIndex == 5

\* SpecMirror offers recordProbe while the probe log is shorter than this, and
\* analyzeProbe while fewer calls than this were made.
MaxMirror == 4

\* SpecBoth offers analyzeProbe while fewer calls than this were made, and
\* recordProbe while the probe log is shorter than this.
MaxBothCalls == 1

\* SpecLayers: probes recorded for the vertex
MaxLayerProbes == 4

\* SpecVerdict: calls of analyzeProbe
MaxVerdictCalls == 2

\* SpecEpochs: calls of analyzeProbe
MaxEpochCalls == 3

\* SpecCommute: calls of analyzeProbe
MaxCommuteCalls == 2

\* SpecCalibration: calls of analyzeProbe
MaxCalibrationCalls == 3

\* SpecSummary: probes recorded
MaxSummaryProbes == 3

\* SpecLog: probes recorded
MaxLogProbes == 3

\* SpecSession: probes recorded
MaxSessionProbes == 3

\* SpecCaller: probes recorded, more than four for each vertex of the queue
MaxCallerProbes == 14

-----------------------------------------------------------------------------
(* Vertex catalog and queue builder *)

DEFAULT_PRIORITY ==
    << "Flow", "Tau", "Fick", "Hill", "Starling", "Cl", "Nernst", "Laplace",
       "HendersonHasselbalch", "MichaelisMenten", "BeerLambert" >>

\* VERTEX_DATA[v].domains
VERTEX_DATA ==
    [ Flow                 |-> {"Physiology", "Measurement/Physics"},
      Tau                  |-> {"Physiology", "Pharmacology"},
      Fick                 |-> {"Physiology"},
      Cl                   |-> {"Pharmacology"},
      Hill                 |-> {"Physiology", "Pharmacology"},
      Starling             |-> {"Physiology"},
      Nernst               |-> {"Physiology", "Pharmacology"},
      Laplace              |-> {"Physiology", "Measurement/Physics"},
      HendersonHasselbalch |-> {"Physiology"},
      MichaelisMenten      |-> {"Pharmacology"},
      BeerLambert          |-> {"Measurement/Physics"} ]

\* Weights in tenths: 12 is 1.2.
COLLEGE_WEIGHTS ==
    [ Flow     |-> [cicm |-> 12, anzca |-> 10],
      Tau      |-> [cicm |-> 10, anzca |-> 12],
      Fick     |-> [cicm |-> 12, anzca |-> 8],
      Cl       |-> [cicm |-> 10, anzca |-> 12],
      Hill     |-> [cicm |-> 10, anzca |-> 10],
      Starling |-> [cicm |-> 12, anzca |-> 8],
      Nernst   |-> [cicm |-> 8,  anzca |-> 12],
      Laplace  |-> [cicm |-> 10, anzca |-> 10] ]

\* college === "CICM" ? (w?.cicm ?? 1) : (w?.anzca ?? 1), in tenths
Weight(v, college) ==
    IF v \in DOMAIN COLLEGE_WEIGHTS
    THEN IF college = "CICM" THEN COLLEGE_WEIGHTS[v].cicm ELSE COLLEGE_WEIGHTS[v].anzca
    ELSE 10

\* x put before the elements of its own weight
RECURSIVE InsertByWeightUnstable(_, _, _)
InsertByWeightUnstable(x, s, college) ==
    IF s = << >> THEN << x >>
    ELSE IF Weight(Head(s), college) > Weight(x, college)
         THEN << Head(s) >> \o InsertByWeightUnstable(x, Tail(s), college)
         ELSE << x >> \o s

\* Array.prototype.sort is stable: x goes behind every element that does not
\* compare after it (weightB - weightA <= 0).
RECURSIVE InsertByWeight(_, _, _)
InsertByWeight(x, s, college) ==
    IF s = << >> THEN << x >>
    ELSE IF Weight(Head(s), college) >= Weight(x, college)
         THEN << Head(s) >> \o InsertByWeight(x, Tail(s), college)
         ELSE << x >> \o s

RECURSIVE SortByWeight(_, _)
SortByWeight(s, college) ==
    IF s = << >> THEN << >>
    ELSE InsertByWeight(s[Len(s)], SortByWeight(SubSeq(s, 1, Len(s) - 1), college), college)

\* the filter that asks for every tag of the vertex to be requested
InDomainsEvery(v, domains) ==
    /\ v \in DOMAIN VERTEX_DATA
    /\ (domains = {} \/ VERTEX_DATA[v] \subseteq domains)

InDomains(v, domains) ==
    /\ v \in DOMAIN VERTEX_DATA
    /\ (domains = {} \/ VERTEX_DATA[v] \cap domains # {})

buildVertexQueue(domains, college) ==
    LET filtered == SelectSeq(DEFAULT_PRIORITY, LAMBDA v : InDomains(v, domains))
    IN IF college = "Both" THEN filtered ELSE SortByWeight(filtered, college)

Range(s) == { s[i] : i \in 1..Len(s) }

-----------------------------------------------------------------------------
(* Session state machine *)

PROBE_LAYERS == << "recall", "mechanism", "clinical", "quantitative" >>

VALID_LAYERS == Range(PROBE_LAYERS)

\* Object.prototype's property names: currentState.vertices is a plain object,
\* so vertices[name] finds these although they are no own property.
ObjectPrototypeKeys ==
    { "constructor", "toString", "valueOf", "hasOwnProperty", "__proto__" }

Undefined == "undefined"

\* !existing is false: the name is an own property or an inherited one.
Found(vs, name) == name \in DOMAIN vs \/ name \in ObjectPrototypeKeys

\* What Object.prototype holds under those names: a truthy value with no own
\* enumerable property.
Inherited == [ f \in {} |-> FALSE ]

\* currentState.vertices[name], when it is found
Lookup(vs, name) == IF name \in DOMAIN vs THEN vs[name] ELSE Inherited

\* { ...obj, [key]: value }
Spread(obj, key, value) ==
    [ k \in DOMAIN obj \cup {key} |-> IF k = key THEN value ELSE obj[k] ]

NewVertexState ==
    [ bestScore |-> 0, quadrant |-> "null", probeCount |-> 0,
      filled |-> FALSE, corrected |-> FALSE, probedLayers |-> << >> ]

\* The classifier of the earlier prototype kept in the repository.
classifyQuadrantPrototype(score, confident) ==
    IF score >= 4 /\ confident THEN "SOLID"
    ELSE IF score >= 3 /\ ~confident THEN "UNDERCONFIDENT"
    ELSE IF score <= 2 /\ confident THEN "HYPERCORRECTION_TARGET"
    ELSE "GAP"

classifyQuadrant(score, confident) ==
    IF score >= 4 /\ confident THEN "SOLID"
    ELSE IF score >= 4 /\ ~confident THEN "UNDERCONFIDENT"
    ELSE IF score >= 3 /\ ~confident THEN "UNDERCONFIDENT"
    ELSE IF score >= 3 /\ confident THEN "SOLID"
    ELSE IF score <= 2 /\ confident THEN "HYPERCORRECTION_TARGET"
    ELSE "GAP"

\* bestScore overwritten by the latest score
MathMaxLatest(a, b) == b

\* Math.max(existing.bestScore, probe.score)
MathMax(a, b) == IF a >= b THEN a ELSE b

\* the layer appended without the includes test
updatedLayersAlways(probedLayers, layer) == Append(probedLayers, layer)

\* existing.probedLayers.includes(layer) ? existing.probedLayers : [...existing.probedLayers, layer]
updatedLayers(probedLayers, layer) ==
    IF layer \in Range(probedLayers) THEN probedLayers ELSE Append(probedLayers, layer)

\* the VertexState built without ...existing
updatedVertexFresh(existing, layer, score, confident) ==
    [ bestScore |-> MathMax(existing.bestScore, score),
      quadrant |-> classifyQuadrant(score, confident),
      probeCount |-> existing.probeCount + 1,
      filled |-> FALSE,
      corrected |-> FALSE,
      probedLayers |-> updatedLayers(existing.probedLayers, layer) ]

updatedVertex(existing, layer, score, confident) ==
    [ existing EXCEPT
        !.bestScore = MathMax(existing.bestScore, score),
        !.quadrant = classifyQuadrant(score, confident),
        !.probeCount = existing.probeCount + 1,
        !.probedLayers = updatedLayers(existing.probedLayers, layer) ]

ProbeResult(vertex, layer, score, confident) ==
    [ vertex |-> vertex, layer |-> layer, score |-> score,
      quadrant |-> classifyQuadrant(score, confident), confident |-> confident ]

\* the log replaced by the latest result
appendProbeOnly(history, result) == << result >>

\* [...currentState.probeHistory, result]
appendProbe(history, result) == Append(history, result)

\* recordProbe reads existing.probedLayers.includes: a TypeError when the value
\* found under the name has no probedLayers.
recordProbeThrows(vs, vertex) ==
    /\ Found(vs, vertex)
    /\ "probedLayers" \notin DOMAIN Lookup(vs, vertex)

\* nextIndex >= vertexQueue.length ? "fill" : "probe"
newPhase(nextIndex, queue) == IF nextIndex >= Len(queue) THEN "fill" ELSE "probe"

\* the pointer read as a 1-based position
currentVertexOneBased(queue, index) ==
    IF index \in 1..Len(queue) THEN queue[index] ELSE "undefined"

\* state.vertexQueue[state.currentVertexIndex]; the queue is indexed from 0
currentVertex(queue, index) ==
    IF index + 1 \in 1..Len(queue) THEN queue[index + 1] ELSE Undefined

\* the first layer, probed or not
firstUnprobedNoSkip(layers, probedLayers) ==
    IF layers = << >> THEN "null" ELSE Head(layers)

RECURSIVE firstUnprobed(_, _)
firstUnprobed(layers, probedLayers) ==
    IF layers = << >> THEN "null"
    ELSE IF Head(layers) \notin Range(probedLayers) THEN Head(layers)
    ELSE firstUnprobed(Tail(layers), probedLayers)

\* the query that answers recall for the entries it finds
getNextUnprobedLayerRecall(vs, vertex) ==
    IF Found(vs, vertex) THEN "recall"
    ELSE firstUnprobed(PROBE_LAYERS, << >>)

getNextUnprobedLayer(vs, vertex) ==
    IF ~Found(vs, vertex) THEN "recall"
    ELSE firstUnprobed(PROBE_LAYERS, Lookup(vs, vertex).probedLayers)

getVertexProbes(history, vertex) == SelectSeq(history, LAMBDA p : p.vertex = vertex)

\* the four-layer rule alone, without the early exits
isVertexLayerCompleteAllLayers(vs, history, vertex) ==
    IF ~Found(vs, vertex) THEN FALSE
    ELSE Len(Lookup(vs, vertex).probedLayers) >= 4

\* the thresholds applied to the two latest probes of the vertex only
isVertexLayerCompleteLatest(vs, history, vertex) ==
    LET existing == Lookup(vs, vertex)
        probes == getVertexProbes(history, vertex)
        latest == IF Len(probes) <= 2 THEN probes
                  ELSE SubSeq(probes, Len(probes) - 1, Len(probes))
        weakProbes == SelectSeq(latest, LAMBDA p : p.score <= 2)
        strongProbes == SelectSeq(latest, LAMBDA p : p.score >= 4)
    IN IF ~Found(vs, vertex) THEN FALSE
       ELSE IF Len(existing.probedLayers) >= 4 THEN TRUE
       ELSE IF Len(weakProbes) >= 2 THEN TRUE
       ELSE IF Len(strongProbes) >= 2 THEN TRUE
       ELSE FALSE

\* the weak threshold off by one: score < 2
isVertexLayerCompleteStrict(vs, history, vertex) ==
    LET existing == Lookup(vs, vertex)
        probes == getVertexProbes(history, vertex)
        weakProbes == SelectSeq(probes, LAMBDA p : p.score < 2)
        strongProbes == SelectSeq(probes, LAMBDA p : p.score >= 4)
    IN IF ~Found(vs, vertex) THEN FALSE
       ELSE IF Len(existing.probedLayers) >= 4 THEN TRUE
       ELSE IF Len(weakProbes) >= 2 THEN TRUE
       ELSE IF Len(strongProbes) >= 2 THEN TRUE
       ELSE FALSE

isVertexLayerComplete(vs, history, vertex) ==
    LET existing == Lookup(vs, vertex)
        probes == getVertexProbes(history, vertex)
        weakProbes == SelectSeq(probes, LAMBDA p : p.score <= 2)
        strongProbes == SelectSeq(probes, LAMBDA p : p.score >= 4)
    IN IF ~Found(vs, vertex) THEN FALSE
       ELSE IF Len(existing.probedLayers) >= 4 THEN TRUE
       ELSE IF Len(weakProbes) >= 2 THEN TRUE
       ELSE IF Len(strongProbes) >= 2 THEN TRUE
       ELSE FALSE

-----------------------------------------------------------------------------
(* Projections.  They return the names of the vertices where the code       *)
(* returns the VertexStates.  An entry that lacks a field reads undefined   *)
(* there: it equals no quadrant, is not > 0 and not >= 4, and is falsy.     *)

HasQuadrant(vs, v, q) == "quadrant" \in DOMAIN vs[v] /\ vs[v].quadrant = q

\* the gaps taken from the best score instead of the quadrant
getGapsByBestScore(vs) ==
    { v \in DOMAIN vs : "bestScore" \in DOMAIN vs[v] /\ vs[v].bestScore <= 2 }

getGaps(vs) ==
    { v \in DOMAIN vs : HasQuadrant(vs, v, "GAP") \/ HasQuadrant(vs, v, "HYPERCORRECTION_TARGET") }

getHypercorrectionTargets(vs) ==
    { v \in DOMAIN vs : HasQuadrant(vs, v, "HYPERCORRECTION_TARGET") }

getStrengths(vs) ==
    { v \in DOMAIN vs :
         \/ HasQuadrant(vs, v, "SOLID")
         \/ ("bestScore" \in DOMAIN vs[v] /\ vs[v].bestScore >= 4) }

\* Math.round(num / den) for den > 0: halves go up
MathRound(num, den) == (2 * num + den) \div (2 * den)

\* verts.filter((v) => v.probeCount > 0)
probedVertices(vs) ==
    { v \in DOMAIN vs : "probeCount" \in DOMAIN vs[v] /\ vs[v].probeCount > 0 }

RECURSIVE SumBestScores(_, _)
SumBestScores(vs, names) ==
    IF names = {} THEN 0
    ELSE LET v == CHOOSE n \in names : TRUE
         IN vs[v].bestScore + SumBestScores(vs, names \ {v})

\* the summary whose mean runs over every vertex, probed or not
getSessionSummaryAllVertices(vs, ph) ==
    LET verts == DOMAIN vs
        probed == probedVertices(vs)
        scored == { v \in verts : "bestScore" \in DOMAIN vs[v] }
    IN [ totalVertices |-> Cardinality(verts),
         probed |-> Cardinality(probed),
         gaps |-> Cardinality({ v \in verts :
                     \/ HasQuadrant(vs, v, "GAP")
                     \/ HasQuadrant(vs, v, "HYPERCORRECTION_TARGET") }),
         strengths |-> Cardinality({ v \in verts :
                     \/ HasQuadrant(vs, v, "SOLID")
                     \/ ("bestScore" \in DOMAIN vs[v] /\ vs[v].bestScore >= 4) }),
         hypercorrectionTargets |-> Cardinality({ v \in verts :
                     HasQuadrant(vs, v, "HYPERCORRECTION_TARGET") }),
         filled |-> Cardinality({ v \in verts :
                     "filled" \in DOMAIN vs[v] /\ vs[v].filled }),
         corrected |-> Cardinality({ v \in verts :
                     "corrected" \in DOMAIN vs[v] /\ vs[v].corrected }),
         meanScore |-> IF scored = {} THEN 0
                       ELSE MathRound(10 * SumBestScores(vs, scored), Cardinality(scored)),
         phase |-> ph ]

\* getSessionSummary, which filters Object.values(vertices) itself; meanScore
\* is Math.round(meanScore * 10) / 10, in tenths
getSessionSummary(vs, ph) ==
    LET verts == DOMAIN vs
        probed == probedVertices(vs)
    IN [ totalVertices |-> Cardinality(verts),
         probed |-> Cardinality(probed),
         gaps |-> Cardinality({ v \in verts :
                     \/ HasQuadrant(vs, v, "GAP")
                     \/ HasQuadrant(vs, v, "HYPERCORRECTION_TARGET") }),
         strengths |-> Cardinality({ v \in verts :
                     \/ HasQuadrant(vs, v, "SOLID")
                     \/ ("bestScore" \in DOMAIN vs[v] /\ vs[v].bestScore >= 4) }),
         hypercorrectionTargets |-> Cardinality({ v \in verts :
                     HasQuadrant(vs, v, "HYPERCORRECTION_TARGET") }),
         filled |-> Cardinality({ v \in verts :
                     "filled" \in DOMAIN vs[v] /\ vs[v].filled }),
         corrected |-> Cardinality({ v \in verts :
                     "corrected" \in DOMAIN vs[v] /\ vs[v].corrected }),
         meanScore |-> IF probed = {} THEN 0
                       ELSE MathRound(10 * SumBestScores(vs, probed), Cardinality(probed)),
         phase |-> ph ]

-----------------------------------------------------------------------------
(* Inputs of the tool calls *)

StartDomains == { {"Measurement/Physics"}, {"Anatomy"} }

StartColleges == { "Both", "CICM" }

\* "Unknown" is in no queue and no property of Object.prototype.
VertexInputs == { "Flow", "Unknown", "constructor" }

LayerInputs == { "recall", "mechanism", "bogus" }

\* (score, confident) of an answer: a weak and a strong score and one outside
\* 1..5.
AnswerInputs == { <<2, TRUE>>, <<4, TRUE>>, <<7, FALSE>> }

PhaseInputs == { "probe", "retest", "idle" }

-----------------------------------------------------------------------------
(* Operations.  threw is TRUE when the last call ended in an exception; a     *)
(* call that returns { error: ... } returns normally.                        *)

Init ==
    /\ phase = "idle"
    /\ vertexQueue = << >>
    /\ currentVertexIndex = 0
    /\ vertices = << >>
    /\ probeHistory = << >>
    /\ threw = FALSE
    /\ vertexBeliefs = << >>
    /\ calls = << >>
    /\ injection = << >>

\* VertexStates carried over from the session before
freshVerticesKept(queue) ==
    [ v \in Range(queue) |-> IF v \in DOMAIN vertices THEN vertices[v] ELSE NewVertexState ]

\* const vertices = {}; for (const name of queue) vertices[name] = { ... }
freshVertices(queue) == [ v \in Range(queue) |-> NewVertexState ]

\* executeStartInterview: buildVertexQueue, fresh VertexStates, initPexSession
StartInterview(domains, college) ==
    LET queue == buildVertexQueue(domains, college)
    IN /\ phase' = "probe"
       /\ vertexQueue' = queue
       /\ currentVertexIndex' = 0
       /\ vertices' = freshVertices(queue)
       /\ probeHistory' = << >>
       /\ threw' = FALSE
       /\ UNCHANGED analyzerVars

\* the recordProbe that takes probes of the current vertex only
RecordProbeFastCurrentOnly(vertex, layerStr, score, confident) ==
    LET layer == IF layerStr \in VALID_LAYERS THEN layerStr ELSE "recall"
    IN IF vertex # currentVertex(vertexQueue, currentVertexIndex)
          \/ ~Found(vertices, vertex)
       THEN /\ threw' = FALSE
            /\ UNCHANGED currentState
       ELSE IF recordProbeThrows(vertices, vertex)
       THEN /\ threw' = TRUE
            /\ UNCHANGED currentState
       ELSE /\ threw' = FALSE
            /\ UNCHANGED <<phase, vertexQueue, currentVertexIndex>>
            /\ probeHistory' = appendProbe(probeHistory,
                                           ProbeResult(vertex, layer, score, confident))
            /\ vertices' = Spread(vertices, vertex,
                                  updatedVertex(vertices[vertex], layer, score, confident))

\* executeRecordProbe -> recordProbe: what it does to the session
RecordProbeFast(vertex, layerStr, score, confident) ==
    LET layer == IF layerStr \in VALID_LAYERS THEN layerStr ELSE "recall"
    IN IF vertex = "" \/ ~Found(vertices, vertex)
       THEN /\ threw' = FALSE
            /\ UNCHANGED currentState
       ELSE IF recordProbeThrows(vertices, vertex)
       THEN /\ threw' = TRUE
            /\ UNCHANGED currentState
       ELSE /\ threw' = FALSE
            /\ UNCHANGED <<phase, vertexQueue, currentVertexIndex>>
            /\ probeHistory' = appendProbe(probeHistory,
                                           ProbeResult(vertex, layer, score, confident))
            /\ vertices' = Spread(vertices, vertex,
                                  updatedVertex(vertices[vertex], layer, score, confident))

\* executeRecordProbe -> recordProbe
RecordProbe(vertex, layerStr, score, confident) ==
    /\ UNCHANGED analyzerVars
    /\ RecordProbeFast(vertex, layerStr, score, confident)

\* executeAdvanceVertex -> advanceVertex, then setPhase("fill") when there is
\* no current vertex
AdvanceVertex ==
    LET nextIndex == currentVertexIndex + 1
    IN /\ currentVertexIndex' = nextIndex
       /\ phase' = IF currentVertex(vertexQueue, nextIndex) = Undefined
                   THEN "fill"
                   ELSE newPhase(nextIndex, vertexQueue)
       /\ threw' = FALSE
       /\ UNCHANGED <<vertexQueue, vertices, probeHistory>>
       /\ UNCHANGED analyzerVars

\* every PexPhase accepted
validPhasesAll ==
    { "idle", "scope", "probe", "map", "dig", "fill", "hypercorrect", "retest" }

validPhases == { "probe", "dig", "fill", "hypercorrect", "retest" }

\* executeSetPhase -> setPhase
SetPhase(p) ==
    /\ UNCHANGED analyzerVars
    /\ IF p = "" \/ p \notin validPhases
       THEN /\ threw' = FALSE
            /\ UNCHANGED currentState
       ELSE /\ phase' = p
            /\ threw' = FALSE
            /\ UNCHANGED <<vertexQueue, currentVertexIndex, vertices, probeHistory>>

\* a new VertexState with the flag set
withFlagFresh(existing, flag) == Spread(NewVertexState, flag, TRUE)

\* { ...existing, [flag]: true }
withFlag(existing, flag) == Spread(existing, flag, TRUE)

\* markFilled / markCorrected
markFlag(vs, vertex, flag) ==
    IF ~Found(vs, vertex) THEN vs
    ELSE Spread(vs, vertex, withFlag(Lookup(vs, vertex), flag))

\* executeMarkFilled -> markFilled
MarkFilled(vertex) ==
    /\ vertices' = IF vertex = "" THEN vertices ELSE markFlag(vertices, vertex, "filled")
    /\ threw' = FALSE
    /\ UNCHANGED <<phase, vertexQueue, currentVertexIndex, probeHistory>>
    /\ UNCHANGED analyzerVars

\* executeMarkCorrected -> markCorrected
MarkCorrected(vertex) ==
    /\ vertices' = IF vertex = "" THEN vertices ELSE markFlag(vertices, vertex, "corrected")
    /\ threw' = FALSE
    /\ UNCHANGED <<phase, vertexQueue, currentVertexIndex, probeHistory>>
    /\ UNCHANGED analyzerVars

\* executeEndInterview -> resetPexState
EndInterview ==
    /\ phase' = "idle"
    /\ vertexQueue' = << >>
    /\ currentVertexIndex' = 0
    /\ vertices' = << >>
    /\ probeHistory' = << >>
    /\ threw' = FALSE
    /\ UNCHANGED analyzerVars

\* executeGetState: getPexState, getSessionSummary, getGaps, getStrengths and
\* getHypercorrectionTargets read currentState and assign nothing
GetState ==
    /\ threw' = FALSE
    /\ UNCHANGED currentState
    /\ UNCHANGED analyzerVars

\* the layer queries that create the entry they do not find
QueryLayersCreating(vertex) ==
    /\ threw' = recordProbeThrows(vertices, vertex)
    /\ vertices' = IF Found(vertices, vertex) THEN vertices
                   ELSE Spread(vertices, vertex, NewVertexState)
    /\ UNCHANGED <<phase, vertexQueue, currentVertexIndex, probeHistory>>
    /\ UNCHANGED analyzerVars

\* isVertexLayerComplete(vertex) and getNextUnprobedLayer(vertex): they read
\* currentState and assign nothing; existing.probedLayers.length and
\* existing.probedLayers.includes are a TypeError when the value found has no
\* probedLayers
QueryLayers(vertex) ==
    /\ threw' = recordProbeThrows(vertices, vertex)
    /\ UNCHANGED currentState
    /\ UNCHANGED analyzerVars

-----------------------------------------------------------------------------
(* Background analyzer.  Scores are numbers; overallStrength is held in     *)
(* tenths and confidenceCalibration in hundredths, as the code rounds them. *)

LAYER_ORDER == << "recall", "mechanism", "clinical", "quantitative" >>

LayerProbe(layer, score, confident) ==
    [ layer |-> layer, score |-> score, confident |-> confident ]

\* the accumulator analyzeProbe starts from when the vertex has none
NewBeliefs ==
    [ layers |-> << >>, overallStrength |-> 0, confidenceCalibration |-> 100,
      knownMisconceptions |-> << >> ]

\* this.beliefState.vertexBeliefs[vertex] ?? { layers: [], ... }: vertexBeliefs
\* is a plain object as well
existingBeliefs(beliefs, vertex) ==
    IF Found(beliefs, vertex) THEN Lookup(beliefs, vertex) ELSE NewBeliefs

\* [...existingBeliefs.layers, layerProbe] is a TypeError when the value found
\* has no layers
analyzeProbeThrows(beliefs, vertex) ==
    "layers" \notin DOMAIN existingBeliefs(beliefs, vertex)

RECURSIVE SumScores(_)
SumScores(layers) ==
    IF layers = << >> THEN 0 ELSE Head(layers).score + SumScores(Tail(layers))

\* Math.round(mean * 10) / 10, in tenths
overallStrength(layers) == MathRound(10 * SumScores(layers), Len(layers))

\* the share of the layers answered correctly, whatever the confidence
calculateConfidenceCalibrationCorrect(layers) ==
    IF layers = << >> THEN 100
    ELSE MathRound(100 * Len(SelectSeq(layers, LAMBDA l : l.score >= 3)), Len(layers))

\* Math.round(calculateConfidenceCalibration(layers) * 100) / 100, in hundredths
calculateConfidenceCalibration(layers) ==
    IF layers = << >> THEN 100
    ELSE MathRound(100 * Len(SelectSeq(layers, LAMBDA l : (l.score >= 3) = l.confident)),
                   Len(layers))

\* [...existingBeliefs.layers, layerProbe]
appendLayer(layers, layerProbe) == Append(layers, layerProbe)

\* the store that leaves out ...this.beliefState.vertexBeliefs
storeLayerProbeAlone(beliefs, vertex, layerProbe) ==
    LET existing == existingBeliefs(beliefs, vertex)
        updated == appendLayer(existing.layers, layerProbe)
    IN Spread(<< >>, vertex,
              [ existing EXCEPT
                  !.layers = updated,
                  !.overallStrength = overallStrength(updated),
                  !.confidenceCalibration = calculateConfidenceCalibration(updated) ])

\* the belief state after the synchronous part of analyzeProbe
storeLayerProbe(beliefs, vertex, layerProbe) ==
    LET existing == existingBeliefs(beliefs, vertex)
        updated == appendLayer(existing.layers, layerProbe)
    IN Spread(beliefs, vertex,
              [ existing EXCEPT
                  !.layers = updated,
                  !.overallStrength = overallStrength(updated),
                  !.confidenceCalibration = calculateConfidenceCalibration(updated) ])

\* the layer at the position the number of probed layers gives
firstNotInByCount(order, probed) ==
    IF Cardinality(probed) >= Len(order) THEN "null"
    ELSE order[Cardinality(probed) + 1]

\* getNextLayer; it is called for vertices analyzeProbe has stored, or after a
\* reset
RECURSIVE firstNotIn(_, _)
firstNotIn(order, probed) ==
    IF order = << >> THEN "null"
    ELSE IF Head(order) \notin probed THEN Head(order)
    ELSE firstNotIn(Tail(order), probed)

getNextLayer(beliefs, vertex) ==
    IF vertex \notin DOMAIN beliefs THEN "recall"
    ELSE firstNotIn(LAYER_ORDER,
                    { beliefs[vertex].layers[i].layer : i \in 1..Len(beliefs[vertex].layers) })

isVertexComplete(beliefs, vertex) ==
    IF vertex \notin DOMAIN beliefs THEN FALSE
    ELSE LET layers == beliefs[vertex].layers
         IN \/ Len(layers) >= 4
            \/ Len(SelectSeq(layers, LAMBDA l : l.score <= 2)) >= 2
            \/ Len(SelectSeq(layers, LAMBDA l : l.score >= 4)) >= 2

\* What generateContent can do.  kind is "throw" (the call rejects),
\* "unparseable" (JSON.parse throws) or "verdict"; the other fields are the
\* parsed object's and are read for a verdict only.  adjustedScore is << >>
\* when absent, else one number in tenths; adjustedConfidence is << >> when it
\* is no boolean; depthReached is << >> when absent; misconceptions holds the
\* strings of the array (none when it is no array).
Outcome(kind, score, conf, misc, depth) ==
    [ kind |-> kind, adjustedScore |-> score, adjustedConfidence |-> conf,
      misconceptions |-> misc, depthReached |-> depth ]

ServiceOutcomes ==
    { Outcome("throw", << >>, << >>, << >>, << >>),
      Outcome("unparseable", << >>, << >>, << >>, << >>),
      Outcome("verdict", << 20 >>, << TRUE >>, << "m1" >>, << "mechanism" >>),
      Outcome("verdict", << >>, << >>, << "m2", "m1" >>, << >>) }

\* the fallback that passes a fixed neutral score on
fallbackAnalysisNeutral(beliefs, params) ==
    [ adjustedScore |-> 3,
      adjustedConfidence |-> params.confident,
      quadrant |-> classifyQuadrant(3, params.confident),
      misconceptions |-> << >>,
      depthReached |-> "surface",
      suggestedNextLayer |-> getNextLayer(beliefs, params.vertex) ]

fallbackAnalysis(beliefs, params) ==
    [ adjustedScore |-> params.rawScore,
      adjustedConfidence |-> params.confident,
      quadrant |-> classifyQuadrant(params.rawScore, params.confident),
      misconceptions |-> << >>,
      depthReached |-> "surface",
      suggestedNextLayer |-> getNextLayer(beliefs, params.vertex) ]

\* Math.max(1, Math.min(5, Math.round(parsed.adjustedScore ?? params.rawScore)))
adjustedScoreOf(parsed, params) ==
    LET rounded == IF parsed.adjustedScore = << >> THEN params.rawScore
                   ELSE MathRound(parsed.adjustedScore[1], 10)
    IN IF rounded < 1 THEN 1 ELSE IF rounded > 5 THEN 5 ELSE rounded

adjustedConfidenceOf(parsed, params) ==
    IF parsed.adjustedConfidence = << >> THEN params.confident
    ELSE parsed.adjustedConfidence[1]

\* [...known, ...found] with no Set in between
mergeMisconceptionsConcat(known, found) == known \o found

\* the verdict's misconceptions in place of the known ones
mergeMisconceptionsReplace(known, found) == found

\* [...new Set([...known, ...found])]: first occurrences, in order
RECURSIVE mergeMisconceptions(_, _)
mergeMisconceptions(known, found) ==
    IF found = << >> THEN known
    ELSE mergeMisconceptions(
            IF Head(found) \in Range(known) THEN known ELSE Append(known, Head(found)),
            Tail(found))

\* the belief state after runDeepAnalysis has tracked the misconceptions
trackMisconceptions(beliefs, vertex, misconceptions) ==
    IF misconceptions # << >> /\ Found(beliefs, vertex)
    THEN Spread(beliefs, vertex,
                Spread(Lookup(beliefs, vertex), "knownMisconceptions",
                       mergeMisconceptions(Lookup(beliefs, vertex).knownMisconceptions,
                                           misconceptions)))
    ELSE beliefs

\* the ProbeAnalysis whose quadrant is classified from the raw answer
deepAnalysisRawQuadrant(beliefs, parsed, params) ==
    [ adjustedScore |-> adjustedScoreOf(parsed, params),
      adjustedConfidence |-> adjustedConfidenceOf(parsed, params),
      quadrant |-> classifyQuadrant(params.rawScore, params.confident),
      misconceptions |-> parsed.misconceptions,
      depthReached |-> IF parsed.depthReached = << >> THEN "surface"
                       ELSE parsed.depthReached[1],
      suggestedNextLayer |-> getNextLayer(beliefs, params.vertex) ]

\* the ProbeAnalysis runDeepAnalysis returns for a parsed verdict
deepAnalysis(beliefs, parsed, params) ==
    [ adjustedScore |-> adjustedScoreOf(parsed, params),
      adjustedConfidence |-> adjustedConfidenceOf(parsed, params),
      quadrant |-> classifyQuadrant(adjustedScoreOf(parsed, params),
                                    adjustedConfidenceOf(parsed, params)),
      misconceptions |-> parsed.misconceptions,
      depthReached |-> IF parsed.depthReached = << >> THEN "surface"
                       ELSE parsed.depthReached[1],
      suggestedNextLayer |-> getNextLayer(beliefs, params.vertex) ]

\* A promise analyzeProbe returned: status is "pending" while generateContent
\* is awaited, "resolved" with the ProbeAnalysis in result, or "rejected".
Call(params, status, result) ==
    [ params |-> params, status |-> status, result |-> result ]

\* analyzeProbe up to the await: what it does to the analyzer
AnalyzeProbeSlow(vertex, layer, rawScore, confident) ==
    LET params == [ vertex |-> vertex, layer |-> layer,
                    rawScore |-> rawScore, confident |-> confident ]
    IN /\ injection' = injection
       /\ IF analyzeProbeThrows(vertexBeliefs, vertex)
          THEN /\ calls' = Append(calls, Call(params, "rejected", << >>))
               /\ vertexBeliefs' = vertexBeliefs
          ELSE /\ calls' = Append(calls, Call(params, "pending", << >>))
               /\ vertexBeliefs' = storeLayerProbe(vertexBeliefs, vertex,
                                                   LayerProbe(layer, rawScore, confident))

\* analyzeProbe up to the await
AnalyzeProbe(vertex, layer, rawScore, confident) ==
    /\ UNCHANGED currentState
    /\ threw' = FALSE
    /\ AnalyzeProbeSlow(vertex, layer, rawScore, confident)

\* the continuation that also writes the recalibrated quadrant into the
\* session's VertexState
ResolveAnalysisWriteBack(i, outcome) ==
    /\ i \in 1..Len(calls)
    /\ calls[i].status = "pending"
    /\ UNCHANGED <<phase, vertexQueue, currentVertexIndex, probeHistory>>
    /\ UNCHANGED <<threw, injection>>
    /\ LET params == calls[i].params
           analysis == IF outcome.kind = "verdict"
                       THEN deepAnalysis(vertexBeliefs', outcome, params)
                       ELSE fallbackAnalysis(vertexBeliefs, params)
       IN /\ vertexBeliefs' = IF outcome.kind = "verdict"
                              THEN trackMisconceptions(vertexBeliefs, params.vertex,
                                                       outcome.misconceptions)
                              ELSE vertexBeliefs
          /\ calls' = [ calls EXCEPT ![i] = Call(params, "resolved", << analysis >>) ]
          /\ vertices' = IF params.vertex \in DOMAIN vertices
                         THEN Spread(vertices, params.vertex,
                                     Spread(vertices[params.vertex], "quadrant",
                                            analysis.quadrant))
                         ELSE vertices

\* the continuation of call i when generateContent settles: runDeepAnalysis
\* from const text = response.text on, or the catch branch of analyzeProbe
ResolveAnalysis(i, outcome) ==
    /\ i \in 1..Len(calls)
    /\ calls[i].status = "pending"
    /\ UNCHANGED currentState
    /\ UNCHANGED <<threw, injection>>
    /\ LET params == calls[i].params
       IN IF outcome.kind = "verdict"
          THEN /\ vertexBeliefs' = trackMisconceptions(vertexBeliefs, params.vertex,
                                                       outcome.misconceptions)
               /\ calls' = [ calls EXCEPT ![i] =
                               Call(params, "resolved",
                                    << deepAnalysis(vertexBeliefs', outcome, params) >>) ]
          ELSE /\ vertexBeliefs' = vertexBeliefs
               /\ calls' = [ calls EXCEPT ![i] =
                               Call(params, "resolved",
                                    << fallbackAnalysis(vertexBeliefs, params) >>) ]

\* generateContextInjection(vertex, analysis) with the analysis of call i: the
\* layer count and the directive of the text
GenerateContextInjection(i) ==
    /\ i \in 1..Len(calls)
    /\ calls[i].status = "resolved"
    /\ LET vertex == calls[i].params.vertex
           analysis == calls[i].result[1]
       IN injection' =
             << [ vertex |-> vertex,
                  layerCount |-> IF vertex \in DOMAIN vertexBeliefs
                                 THEN Len(vertexBeliefs[vertex].layers) ELSE 0,
                  directive |-> IF analysis.suggestedNextLayer = "null"
                                THEN "Vertex complete" ELSE "DO NOT advance yet" ] >>
    /\ threw' = FALSE
    /\ UNCHANGED currentState
    /\ UNCHANGED <<vertexBeliefs, calls>>

\* BackgroundAnalyzer.reset
AnalyzerReset ==
    /\ vertexBeliefs' = << >>
    /\ threw' = FALSE
    /\ UNCHANGED currentState
    /\ UNCHANGED <<calls, injection>>

-----------------------------------------------------------------------------
(* Spec: every tool call, in any order *)

Next ==
    \/ \E d \in StartDomains, c \in StartColleges : StartInterview(d, c)
    \/ /\ Len(probeHistory) < MaxLog
       /\ \E v \in VertexInputs, l \in LayerInputs, a \in AnswerInputs :
             RecordProbe(v, l, a[1], a[2])
    \/ /\ currentVertexIndex < MaxIndex
       /\ AdvanceVertex
    \/ \E p \in PhaseInputs : SetPhase(p)
    \/ \E v \in VertexInputs : MarkFilled(v)
    \/ \E v \in VertexInputs : MarkCorrected(v)
    \/ EndInterview

Spec == Init /\ [][Next]_vars

-----------------------------------------------------------------------------
(* SpecProbe: one vertex of a started session probed at any layer, in any   *)
(* order, with one answer per quadrant and score                            *)

ProbeAnswers == { <<1, FALSE>>, <<2, TRUE>>, <<3, FALSE>>, <<4, TRUE>> }

NextProbe ==
    \/ StartInterview({"Measurement/Physics"}, "Both")
    \/ /\ Len(probeHistory) < MaxProbes
       /\ \E l \in VALID_LAYERS, a \in ProbeAnswers : RecordProbe("Flow", l, a[1], a[2])

SpecProbe == Init /\ [][NextProbe]_vars

-----------------------------------------------------------------------------
(* SpecDriver: the caller that follows the instruction executeRecordProbe   *)
(* returns: probe the current vertex at nextLayer until vertexComplete      *)

DriverScores == 0..6

DriverProbe(score, confident) ==
    LET vertex == currentVertex(vertexQueue, currentVertexIndex)
    IN /\ vertex # Undefined
       /\ ~isVertexLayerComplete(vertices, probeHistory, vertex)
       /\ RecordProbe(vertex, getNextUnprobedLayer(vertices, vertex), score, confident)

NextDriver ==
    \/ StartInterview({"Measurement/Physics"}, "Both")
    \/ /\ Len(probeHistory) < MaxDriverProbes
       /\ \E s \in DriverScores, c \in BOOLEAN : DriverProbe(s, c)

SpecDriver == Init /\ [][NextDriver]_vars

-----------------------------------------------------------------------------
(* SpecWalk: a session over the whole catalog; the caller probes the        *)
(* current vertex at nextLayer and advances the pointer.                    *)

WalkAnswers == { <<1, FALSE>>, <<2, TRUE>>, <<3, TRUE>>, <<4, TRUE>> }

NextWalk ==
    \/ StartInterview({}, "Both")
    \/ /\ Len(probeHistory) < MaxWalkProbes
       /\ \E a \in WalkAnswers : DriverProbe(a[1], a[2])
    \/ /\ currentVertexIndex < MaxWalkIndex
       /\ AdvanceVertex

SpecWalk == Init /\ [][NextWalk]_vars

-----------------------------------------------------------------------------
(* SpecQueue: sessions started for every domain filter and body, and the    *)
(* pointer advanced through the queue built.                                *)

QueueDomains == SUBSET { "Physiology", "Pharmacology", "Measurement/Physics", "Anatomy" }

QueueColleges == { "Both", "CICM", "ANZCA" }

NextQueue ==
    \/ \E d \in QueueDomains, c \in QueueColleges : StartInterview(d, c)
    \/ /\ currentVertexIndex < MaxQueueIndex
       /\ AdvanceVertex

SpecQueue == Init /\ [][NextQueue]_vars

-----------------------------------------------------------------------------
(* SpecMirror: the probes of one vertex given to recordProbe and to         *)
(* analyzeProbe, each at its own pace.                                      *)

MirrorLayers == { "recall", "mechanism" }

MirrorAnswers == { <<3, FALSE>>, <<4, TRUE>> }

NextMirror ==
    \/ StartInterview({"Measurement/Physics"}, "Both")
    \/ /\ Len(probeHistory) < MaxMirror
       /\ \E l \in MirrorLayers, a \in MirrorAnswers : RecordProbe("Flow", l, a[1], a[2])
    \/ /\ Len(calls) < MaxMirror
       /\ \E l \in MirrorLayers, a \in MirrorAnswers : AnalyzeProbe("Flow", l, a[1], a[2])

SpecMirror == Init /\ [][NextMirror]_vars

-----------------------------------------------------------------------------
(* SpecAnalyzer: the analyzer alone.  Calls are made, their round trips     *)
(* settle in any order and with any outcome, texts are generated and the    *)
(* analyzer is reset at any time.                                           *)

AnalyzerVertices == { "Flow", "constructor" }

AnalyzerLayers == { "recall", "mechanism" }

AnalyzerAnswers == { <<2, TRUE>>, <<4, FALSE>>, <<7, TRUE>> }

NextAnalyzer ==
    \/ /\ Len(calls) < MaxCalls
       /\ \E v \in AnalyzerVertices, l \in AnalyzerLayers, a \in AnalyzerAnswers :
             AnalyzeProbe(v, l, a[1], a[2])
    \/ \E i \in 1..Len(calls), o \in ServiceOutcomes : ResolveAnalysis(i, o)
    \/ \E i \in 1..Len(calls) : GenerateContextInjection(i)
    \/ AnalyzerReset

SpecAnalyzer == Init /\ [][NextAnalyzer]_vars

-----------------------------------------------------------------------------
(* SpecOverlap: calls on two vertices whose round trips overlap and settle  *)
(* in any order, with no reset in between.                                  *)

OverlapVertices == { "Flow", "Tau" }

OverlapAnswers == { <<2, TRUE>>, <<4, FALSE>> }

NextOverlap ==
    \/ /\ Len(calls) < MaxOverlap
       /\ \E v \in OverlapVertices, l \in AnalyzerLayers, a \in OverlapAnswers :
             AnalyzeProbe(v, l, a[1], a[2])
    \/ \E i \in 1..Len(calls), o \in ServiceOutcomes : ResolveAnalysis(i, o)

SpecOverlap == Init /\ [][NextOverlap]_vars

-----------------------------------------------------------------------------
(* SpecLayers: one session, one vertex probed at every layer; the front    *)
(* end records each probe and submits the probes it has recorded to the     *)
(* analyzer, in order; the round trips settle in any order.                 *)

LayerAnswers == { <<3, FALSE>> }

LayerOutcomes ==
    { Outcome("throw", << >>, << >>, << >>, << >>),
      Outcome("verdict", << >>, << >>, << >>, << >>) }

\* the front end submits the next probe of the log to analyzeProbe
SubmitProbe ==
    /\ Len(calls) < Len(probeHistory)
    /\ LET p == probeHistory[Len(calls) + 1]
       IN AnalyzeProbe(p.vertex, p.layer, p.score, p.confident)

NextLayers ==
    \/ /\ phase = "idle"
       /\ StartInterview({"Measurement/Physics"}, "Both")
    \/ /\ Len(probeHistory) < MaxLayerProbes
       /\ \E l \in VALID_LAYERS, a \in LayerAnswers : RecordProbe("Flow", l, a[1], a[2])
    \/ SubmitProbe
    \/ \E i \in 1..Len(calls), o \in LayerOutcomes : ResolveAnalysis(i, o)

SpecLayers == Init /\ [][NextLayers]_vars

-----------------------------------------------------------------------------
(* SpecVerdict: calls on one vertex whose verdicts carry every kind of      *)
(* score (absent, below 1, above 5, fractional, a half) and of confidence   *)
(* (absent or no boolean, true, false).                                     *)

VerdictAnswers == { <<0, FALSE>>, <<2, TRUE>>, <<4, FALSE>>, <<7, TRUE>> }

\* adjustedScore of the verdict, in tenths
VerdictScores == { << >>, << -10 >>, << 14 >>, << 25 >>, << 34 >>, << 62 >> }

VerdictConfidences == { << >>, << TRUE >>, << FALSE >> }

VerdictOutcomes ==
    { Outcome("throw", << >>, << >>, << >>, << >>) }
    \cup { Outcome("verdict", s, c, << >>, << >>) :
               s \in VerdictScores, c \in VerdictConfidences }

NextVerdict ==
    \/ /\ Len(calls) < MaxVerdictCalls
       /\ \E a \in VerdictAnswers : AnalyzeProbe("Flow", "recall", a[1], a[2])
    \/ \E i \in 1..Len(calls), o \in VerdictOutcomes : ResolveAnalysis(i, o)

SpecVerdict == Init /\ [][NextVerdict]_vars

-----------------------------------------------------------------------------
(* SpecEpochs: calls on two vertices that settle in any order; the analyzer *)
(* is reset when no round trip is open.                                     *)

EpochAnswers == { <<2, TRUE>> }

NoCallPending == \A i \in 1..Len(calls) : calls[i].status # "pending"

NextEpochs ==
    \/ /\ Len(calls) < MaxEpochCalls
       /\ \E v \in OverlapVertices, a \in EpochAnswers :
             AnalyzeProbe(v, "recall", a[1], a[2])
    \/ \E i \in 1..Len(calls), o \in ServiceOutcomes : ResolveAnalysis(i, o)
    \/ /\ NoCallPending
       /\ AnalyzerReset

SpecEpochs == Init /\ [][NextEpochs]_vars

-----------------------------------------------------------------------------
(* SpecCommute: two calls, on one vertex or on two, submitted in either     *)
(* order and settling in either order.                                      *)

NextCommute ==
    \/ /\ Len(calls) < MaxCommuteCalls
       /\ \E v \in OverlapVertices, l \in AnalyzerLayers, a \in OverlapAnswers :
             AnalyzeProbe(v, l, a[1], a[2])
    \/ \E i \in 1..Len(calls), o \in ServiceOutcomes : ResolveAnalysis(i, o)

SpecCommute == Init /\ [][NextCommute]_vars

-----------------------------------------------------------------------------
(* SpecCalibration: calls on one vertex with answers of every calibration   *)
(* (right and sure, right and unsure, wrong and sure, wrong and unsure).    *)

CalibrationAnswers == { <<2, TRUE>>, <<2, FALSE>>, <<4, TRUE>>, <<3, FALSE>> }

NextCalibration ==
    \/ /\ Len(calls) < MaxCalibrationCalls
       /\ \E a \in CalibrationAnswers : AnalyzeProbe("Flow", "recall", a[1], a[2])
    \/ \E i \in 1..Len(calls), o \in LayerOutcomes : ResolveAnalysis(i, o)
    \/ AnalyzerReset

SpecCalibration == Init /\ [][NextCalibration]_vars

-----------------------------------------------------------------------------
(* SpecSummary: a session of three vertices; the caller probes the current  *)
(* vertex, advances, sets the phase and marks vertices filled or corrected. *)

SummaryVertices == { "Flow", "Laplace", "constructor" }

SummaryPhases == { "fill", "hypercorrect" }

NextSummary ==
    \/ StartInterview({"Measurement/Physics"}, "Both")
    \/ /\ Len(probeHistory) < MaxSummaryProbes
       /\ \E a \in WalkAnswers : DriverProbe(a[1], a[2])
    \/ /\ currentVertexIndex < Len(vertexQueue)
       /\ AdvanceVertex
    \/ \E p \in SummaryPhases : SetPhase(p)
    \/ \E v \in SummaryVertices : MarkFilled(v)
    \/ \E v \in SummaryVertices : MarkCorrected(v)

SpecSummary == Init /\ [][NextSummary]_vars

-----------------------------------------------------------------------------
(* SpecQuery: every tool call and every query, in any order                 *)

NextQuery ==
    \/ \E d \in StartDomains, c \in StartColleges : StartInterview(d, c)
    \/ /\ Len(probeHistory) < MaxLog
       /\ \E v \in VertexInputs, l \in LayerInputs, a \in AnswerInputs :
             RecordProbe(v, l, a[1], a[2])
    \/ /\ currentVertexIndex < MaxIndex
       /\ AdvanceVertex
    \/ \E p \in PhaseInputs : SetPhase(p)
    \/ \E v \in VertexInputs : MarkFilled(v)
    \/ \E v \in VertexInputs : MarkCorrected(v)
    \/ EndInterview
    \/ GetState
    \/ \E v \in VertexInputs : QueryLayers(v)

SpecQuery == Init /\ [][NextQuery]_vars

-----------------------------------------------------------------------------
(* SpecLog: two vertices of a session probed in any order, with scores in   *)
(* and below the range of the declaration, and marked filled.               *)

LogVertices == { "Flow", "Laplace" }

LogAnswers == { <<-1, FALSE>>, <<2, TRUE>>, <<4, TRUE>> }

NextLog ==
    \/ StartInterview({"Measurement/Physics"}, "Both")
    \/ /\ Len(probeHistory) < MaxLogProbes
       /\ \E v \in LogVertices, l \in MirrorLayers, a \in LogAnswers :
             RecordProbe(v, l, a[1], a[2])
    \/ \E v \in LogVertices : MarkFilled(v)

SpecLog == Init /\ [][NextLog]_vars

-----------------------------------------------------------------------------
(* SpecSession: one session in which two vertices are probed in any order,  *)
(* in any phase and at any position of the pointer, and one is marked.      *)

SessionAnswers == { <<2, TRUE>>, <<3, FALSE>>, <<4, TRUE>> }

NextSession ==
    \/ StartInterview({"Measurement/Physics"}, "Both")
    \/ /\ Len(probeHistory) < MaxSessionProbes
       /\ \E v \in LogVertices, l \in MirrorLayers, a \in SessionAnswers :
             RecordProbe(v, l, a[1], a[2])
    \/ /\ currentVertexIndex < Len(vertexQueue)
       /\ AdvanceVertex
    \/ SetPhase("retest")
    \/ MarkFilled("Flow")
    \/ MarkCorrected("Flow")

SpecSession == Init /\ [][NextSession]_vars

-----------------------------------------------------------------------------
(* SpecCaller: the caller of one session that probes the current vertex at  *)
(* its next unprobed layer until isVertexLayerComplete holds, then advances,*)
(* and goes on as long as there is a current vertex.                        *)

CallerColleges == { "Both", "CICM" }

CallerAnswers == { <<2, TRUE>>, <<3, FALSE>>, <<4, TRUE>> }

\* pex_advance_vertex once the current vertex is complete
AdvanceWhenComplete ==
    LET vertex == currentVertex(vertexQueue, currentVertexIndex)
    IN /\ vertex # Undefined
       /\ isVertexLayerComplete(vertices, probeHistory, vertex)
       /\ AdvanceVertex

NextCaller ==
    \/ /\ phase = "idle"
       /\ \E c \in CallerColleges : StartInterview({"Measurement/Physics"}, c)
    \/ /\ Len(probeHistory) < MaxCallerProbes
       /\ \E a \in CallerAnswers : DriverProbe(a[1], a[2])
    \/ AdvanceWhenComplete

\* the caller does not stop while it has a call to make
SpecCaller == Init /\ [][NextCaller]_vars /\ WF_vars(NextCaller)

-----------------------------------------------------------------------------
(* SpecBoth: the front end drives the session and the analyzer side by side *)

NextBoth ==
    \/ StartInterview({"Measurement/Physics"}, "Both")
    \/ /\ Len(probeHistory) < MaxBothCalls
       /\ \E v \in {"Flow", "constructor"}, a \in OverlapAnswers :
             RecordProbe(v, "recall", a[1], a[2])
    \/ /\ currentVertexIndex < MaxBothCalls
       /\ AdvanceVertex
    \/ SetPhase("retest")
    \/ MarkFilled("Flow")
    \/ MarkCorrected("Flow")
    \/ EndInterview
    \/ /\ Len(calls) < MaxBothCalls
       /\ \E a \in OverlapAnswers : AnalyzeProbe("Flow", "recall", a[1], a[2])
    \/ \E i \in 1..Len(calls), o \in ServiceOutcomes : ResolveAnalysis(i, o)
    \/ \E i \in 1..Len(calls) : GenerateContextInjection(i)
    \/ AnalyzerReset

SpecBoth == Init /\ [][NextBoth]_vars

-----------------------------------------------------------------------------
(* Properties *)

\* A step inside one session: neither initPexSession nor resetPexState.
SessionStep ==
    /\ ~(/\ probeHistory' = << >>
         /\ currentVertexIndex' = 0
         /\ \E d \in StartDomains, c \in StartColleges : StartInterview(d, c))
    /\ ~EndInterview

\* The entries of the vertex map that are VertexStates.
VertexStates(vs) == { v \in DOMAIN vs : "bestScore" \in DOMAIN vs[v] }

IsPrefix(s, t) == Len(s) <= Len(t) /\ SubSeq(t, 1, Len(s)) = s

\* The layer executeRecordProbe passes on for a layer argument.
LayerOf(layerStr) ==
    IF layerStr \in { "recall", "mechanism", "clinical", "quantitative" }
    THEN layerStr ELSE "recall"

\* C1: within one session no step lowers the bestScore of any vertex, and a
\* recordProbe with score s on a vertex of the queue leaves its bestScore at
\* the larger of the previous bestScore and s.
C1_BestScoreMonotone ==
    [][ SessionStep =>
          /\ \A v \in VertexStates(vertices) :
                /\ v \in VertexStates(vertices')
                /\ vertices'[v].bestScore >= vertices[v].bestScore
          /\ \A v \in Range(vertexQueue), l \in LayerInputs, a \in AnswerInputs :
                RecordProbe(v, l, a[1], a[2]) =>
                   vertices'[v].bestScore =
                      (IF a[1] > vertices[v].bestScore THEN a[1] ELSE vertices[v].bestScore)
      ]_vars

\* C1 witness: a lower score was recorded after a higher one and the higher
\* one is still the bestScore.
C1_Witness ==
    /\ Len(probeHistory) = 2
    /\ probeHistory[1].vertex = "Flow" /\ probeHistory[1].score = 4
    /\ probeHistory[2].vertex = "Flow" /\ probeHistory[2].score = 2
    /\ vertices["Flow"].bestScore = 4

\* C2: within one session every step leaves the previous probe log as a prefix
\* of the new one; recordProbe on a vertex of the queue appends exactly one
\* entry, the probe just recorded; recordProbe on any other name, advanceVertex,
\* setPhase, markFilled and markCorrected leave the log as it is.
C2_LogAppendOnly ==
    [][ SessionStep =>
          /\ IsPrefix(probeHistory, probeHistory')
          /\ \A v \in VertexInputs, l \in LayerInputs, a \in AnswerInputs :
                RecordProbe(v, l, a[1], a[2]) =>
                   IF v \in Range(vertexQueue)
                   THEN /\ Len(probeHistory') = Len(probeHistory) + 1
                        /\ probeHistory'[Len(probeHistory')].vertex = v
                        /\ probeHistory'[Len(probeHistory')].layer = LayerOf(l)
                        /\ probeHistory'[Len(probeHistory')].score = a[1]
                        /\ probeHistory'[Len(probeHistory')].confident = a[2]
                   ELSE probeHistory' = probeHistory
          /\ ( \/ AdvanceVertex
               \/ \E p \in PhaseInputs : SetPhase(p)
               \/ \E v \in VertexInputs : MarkFilled(v) \/ MarkCorrected(v) )
             => probeHistory' = probeHistory
      ]_vars

\* C2 witness: two probes are in the log of a session that has since advanced
\* its pointer, changed its phase and marked a vertex.
C2_Witness ==
    /\ Len(probeHistory) = 2
    /\ currentVertexIndex = 2
    /\ phase = "retest"
    /\ vertices["Flow"].filled

\* C3: recordProbe, markFilled and markCorrected with a vertex name that is not
\* in the queue raise no error and leave the whole session state unchanged.
C3_UnknownVertexNoOp ==
    [][ \A v \in VertexInputs \ Range(vertexQueue) :
          ( \/ \E l \in LayerInputs, a \in AnswerInputs : RecordProbe(v, l, a[1], a[2])
            \/ MarkFilled(v)
            \/ MarkCorrected(v) )
          => (~threw' /\ UNCHANGED currentState)
      ]_vars

\* C4 (the session store): every probe-log entry has a score in 1..5 and every
\* bestScore is 0 or in 1..5.
C4_ScoresInRange ==
    /\ \A i \in 1..Len(probeHistory) : probeHistory[i].score \in 1..5
    /\ \A v \in VertexStates(vertices) : vertices[v].bestScore \in 0..5

Quadrants == { "SOLID", "UNDERCONFIDENT", "GAP", "HYPERCORRECTION_TARGET" }

\* The rule list of the classifier's contract, first match wins.
FirstMatchingRule(score, confident) ==
    CASE score >= 4 /\ confident  -> "SOLID"
      [] score >= 3 /\ ~confident -> "UNDERCONFIDENT"
      [] score >= 3 /\ confident  -> "SOLID"
      [] score <= 2 /\ confident  -> "HYPERCORRECTION_TARGET"
      [] OTHER                    -> "GAP"

\* C5: for every score in 1..5 and either confidence, the quadrant recordProbe
\* computes is one of the four quadrants, it is the one the first matching rule
\* gives, and it is what the probed vertex then carries.
C5_ClassifyFirstMatch ==
    /\ \A i \in 1..Len(probeHistory) :
          probeHistory[i].score \in 1..5 =>
             /\ probeHistory[i].quadrant \in Quadrants
             /\ probeHistory[i].quadrant =
                   FirstMatchingRule(probeHistory[i].score, probeHistory[i].confident)
    /\ \A v \in Range(vertexQueue) :
          LET probes == getVertexProbes(probeHistory, v)
          IN (probes # << >> /\ probes[Len(probes)].score \in 1..5) =>
                vertices[v].quadrant =
                   FirstMatchingRule(probes[Len(probes)].score, probes[Len(probes)].confident)

\* C5 witness: a confident answer scored 3 was classified SOLID.
C5_Witness ==
    \E i \in 1..Len(probeHistory) :
       /\ probeHistory[i].score = 3
       /\ probeHistory[i].confident
       /\ probeHistory[i].quadrant = "SOLID"

\* The log entries of vertex v whose score satisfies Test.
ProbesWhere(v, Test(_)) ==
    { i \in 1..Len(probeHistory) : probeHistory[i].vertex = v /\ Test(probeHistory[i].score) }

ScoresOf(v) ==
    LET probes == getVertexProbes(probeHistory, v)
    IN [ i \in 1..Len(probes) |-> probes[i].score ]

LayersLogged(v) ==
    { probeHistory[i].layer : i \in ProbesWhere(v, LAMBDA s : TRUE) }

AllLayers == { "recall", "mechanism", "clinical", "quantitative" }

\* C6: a queued vertex is complete exactly when its probed-layer set holds all
\* four layers, or two of its log entries scored <= 2, or two scored >= 4; two
\* probes scoring 1 and 2 make it complete, a 1 followed by a 3 does not, and
\* four distinct layers do whatever the scores.
C6_CompletionPolicy ==
    \A v \in Range(vertexQueue) :
       LET complete == isVertexLayerComplete(vertices, probeHistory, v)
       IN /\ complete <=>
                \/ AllLayers \subseteq Range(vertices[v].probedLayers)
                \/ Cardinality(ProbesWhere(v, LAMBDA s : s <= 2)) >= 2
                \/ Cardinality(ProbesWhere(v, LAMBDA s : s >= 4)) >= 2
          /\ ScoresOf(v) \in { <<1, 2>>, <<2, 1>> } => complete
          /\ ScoresOf(v) = <<1, 3>> => ~complete
          /\ LayersLogged(v) = AllLayers => complete

\* C6 witness: four distinct layers were probed with neither two weak nor two
\* strong scores, and the vertex is complete.
C6_Witness ==
    /\ LayersLogged("Flow") = AllLayers
    /\ ScoresOf("Flow") = <<1, 3, 3, 4>>
    /\ isVertexLayerComplete(vertices, probeHistory, "Flow")

\* C7: for a caller that records the layer nextUnprobedLayer returns and stops
\* once isComplete holds, no vertex gets more than 4 probes, a vertex with 4
\* probes is complete, and no vertex is complete with fewer than 2 probes.
C7_DriverBound ==
    \A v \in Range(vertexQueue) :
       /\ vertices[v].probeCount <= 4
       /\ vertices[v].probeCount = 4 => isVertexLayerComplete(vertices, probeHistory, v)
       /\ isVertexLayerComplete(vertices, probeHistory, v) => vertices[v].probeCount >= 2

\* C7 witness: the fourth probe was needed: after three probes the vertex was
\* not complete, after four it is.
C7_Witness ==
    /\ "Flow" \in Range(vertexQueue)
    /\ vertices["Flow"].probeCount = 4
    /\ ScoresOf("Flow") = <<3, 2, 4, 3>>
    /\ isVertexLayerComplete(vertices, probeHistory, "Flow")

NoDuplicates(s) == \A i, j \in 1..Len(s) : s[i] = s[j] => i = j

\* C8: a probe of a layer that the vertex's probedLayers already holds leaves
\* probedLayers as it is, adds 1 to probeCount and appends one log entry; no
\* layer is ever held twice and at most four are held.
C8_LayerSetIdempotent ==
    [][ /\ \A v \in Range(vertexQueue), l \in AllLayers, a \in ProbeAnswers :
             (l \in Range(vertices[v].probedLayers) /\ RecordProbe(v, l, a[1], a[2])) =>
                /\ vertices'[v].probedLayers = vertices[v].probedLayers
                /\ vertices'[v].probeCount = vertices[v].probeCount + 1
                /\ Len(probeHistory') = Len(probeHistory) + 1
        /\ \A v \in Range(vertexQueue') :
             /\ NoDuplicates(vertices'[v].probedLayers)
             /\ Len(vertices'[v].probedLayers) <= 4
      ]_vars

\* C8 witness: one layer was probed three times and is held once.
C8_Witness ==
    /\ "Flow" \in Range(vertexQueue)
    /\ vertices["Flow"].probeCount = 3
    /\ vertices["Flow"].probedLayers = << "mechanism" >>

\* C9: advanceVertex adds exactly 1 to the pointer and raises no error; when
\* the new pointer is at or past the end of the queue the phase is fill and
\* there is no current vertex, also when the pointer was past the end before;
\* otherwise the current vertex is the queue element at the new pointer.
C9_AdvanceVertex ==
    [][ AdvanceVertex =>
          /\ currentVertexIndex' = currentVertexIndex + 1
          /\ ~threw'
          /\ vertexQueue' = vertexQueue
          /\ IF currentVertexIndex' >= Len(vertexQueue)
             THEN /\ phase' = "fill"
                  /\ currentVertex(vertexQueue', currentVertexIndex') = Undefined
             ELSE currentVertex(vertexQueue', currentVertexIndex') =
                     vertexQueue[currentVertexIndex' + 1]
      ]_vars

\* C9 witness: the pointer of a three-vertex queue was advanced past the end
\* and then once more.
C9_Witness ==
    /\ Len(vertexQueue) = 3
    /\ currentVertexIndex = 4
    /\ phase = "fill"

\* C10: a session that is not idle becomes idle only by a reset.
C10_IdleOnlyByReset ==
    [][ (phase # "idle" /\ phase' = "idle") => EndInterview ]_vars

\* C10 witness: setPhase has changed the phase of a running session that has
\* probes in its log and an advanced pointer.
C10_Witness ==
    /\ phase = "retest"
    /\ currentVertexIndex = 1
    /\ Len(probeHistory) = 1

\* C11: initSession is possible in every state, a running session included,
\* and raises no error; after it the phase is probe, the pointer 0, the log
\* empty, the queue the one built from the arguments, and the vertex map holds
\* exactly the queued names, each with a fresh VertexState: no score, quadrant,
\* probed layer, flag or other entry of the session before remains.  (That
\* the call is possible is stated for the body Both; the effect for every
\* body.)
C11_InitSessionReplaces ==
    [][ /\ \A d \in StartDomains : ENABLED StartInterview(d, "Both")
        /\ \A d \in StartDomains, c \in StartColleges :
              StartInterview(d, c) =>
                 /\ ~threw'
                 /\ phase' = "probe"
                 /\ currentVertexIndex' = 0
                 /\ probeHistory' = << >>
                 /\ vertexQueue' = buildVertexQueue(d, c)
                 /\ DOMAIN vertices' = Range(vertexQueue')
                 /\ \A v \in DOMAIN vertices' :
                       /\ vertices'[v].bestScore = 0
                       /\ vertices'[v].quadrant = "null"
                       /\ vertices'[v].probeCount = 0
                       /\ vertices'[v].probedLayers = << >>
                       /\ ~vertices'[v].filled
                       /\ ~vertices'[v].corrected
      ]_vars

\* C11 witness: a session that has just been started: CICM order, nothing
\* probed, nothing marked.
C11_Witness ==
    /\ phase = "probe"
    /\ vertexQueue = << "Flow", "Laplace", "BeerLambert" >>
    /\ currentVertexIndex = 0
    /\ probeHistory = << >>
    /\ \A v \in Range(vertexQueue) : vertices[v] = NewVertexState
    /\ DOMAIN vertices = Range(vertexQueue)

\* C12: when generateContent throws or its text cannot be parsed, the call does
\* not fail: it resolves to a ProbeAnalysis whose adjustedScore is the raw
\* score, whose adjustedConfidence is the raw confident flag, whose quadrant is
\* classifyQuadrant of the two, whose misconception list is empty and whose
\* depthReached is surface.
C12_AnalyzerFallback ==
    [][ \A i \in 1..Len(calls), o \in ServiceOutcomes :
          (o.kind \in { "throw", "unparseable" } /\ ResolveAnalysis(i, o)) =>
             /\ calls'[i].status = "resolved"
             /\ calls'[i].params = calls[i].params
             /\ Len(calls'[i].result) = 1
             /\ calls'[i].result[1].adjustedScore = calls[i].params.rawScore
             /\ calls'[i].result[1].adjustedConfidence = calls[i].params.confident
             /\ calls'[i].result[1].quadrant \in Quadrants
             /\ calls'[i].result[1].quadrant =
                   classifyQuadrant(calls[i].params.rawScore, calls[i].params.confident)
             /\ calls'[i].result[1].misconceptions = << >>
             /\ calls'[i].result[1].depthReached = "surface"
      ]_vars

\* C12 witness: a call with raw score 7 has resolved with adjustedScore 7,
\* which only the fallback returns, the other call being still open.
C12_Witness ==
    /\ Len(calls) = 2
    /\ calls[1].status = "pending"
    /\ calls[2].status = "resolved"
    /\ calls[2].params.rawScore = 7
    /\ calls[2].result[1].adjustedScore = 7
    /\ calls[2].result[1].quadrant = "SOLID"

\* The calls made on vertex v, in the order of their submission.
CallsOn(v) == SelectSeq(calls, LAMBDA c : c.params.vertex = v)

\* The LayerProbes of those calls.
ProbesSubmitted(v) ==
    [ i \in 1..Len(CallsOn(v)) |->
         LayerProbe(CallsOn(v)[i].params.layer, CallsOn(v)[i].params.rawScore,
                    CallsOn(v)[i].params.confident) ]

\* The misconception strings of the verdicts returned for v so far.
MisconceptionsReturned(v) ==
    UNION { Range(CallsOn(v)[i].result[1].misconceptions) :
               i \in { j \in 1..Len(CallsOn(v)) : CallsOn(v)[j].status = "resolved" } }

\* C13: with calls on one vertex overlapping and settling in any order, the
\* vertex's accumulator holds one LayerProbe per call, in the order of
\* submission, and once every call on the vertex has resolved its
\* misconceptions are, without duplicates, the union of the misconceptions of
\* all the verdicts returned.
C13_NoLostUpdate ==
    \A v \in OverlapVertices :
       CallsOn(v) # << >> =>
          /\ v \in DOMAIN vertexBeliefs
          /\ vertexBeliefs[v].layers = ProbesSubmitted(v)
          /\ (\A i \in 1..Len(CallsOn(v)) : CallsOn(v)[i].status = "resolved") =>
                /\ Range(vertexBeliefs[v].knownMisconceptions) = MisconceptionsReturned(v)
                /\ NoDuplicates(vertexBeliefs[v].knownMisconceptions)

\* C13 witness: two calls on one vertex were open together and the second
\* resolved first: the known misconceptions start with the second call's, and
\* the first call saw both layers when it resolved.
C13_Witness ==
    /\ Len(calls) = 2
    /\ calls[1].params.vertex = "Flow" /\ calls[1].params.layer = "recall"
    /\ calls[2].params.vertex = "Flow" /\ calls[2].params.layer = "mechanism"
    /\ calls[1].status = "resolved" /\ calls[2].status = "resolved"
    /\ calls[1].result[1].misconceptions = << "m1" >>
    /\ calls[2].result[1].misconceptions = << "m2", "m1" >>
    /\ calls[1].result[1].suggestedNextLayer = "clinical"
    /\ vertexBeliefs["Flow"].knownMisconceptions = << "m2", "m1" >>

\* A step of the analyzer in SpecBoth: a submission, the settling of a round
\* trip, a generated text or a reset.
AnalyzerStep ==
    \/ \E a \in OverlapAnswers : AnalyzeProbe("Flow", "recall", a[1], a[2])
    \/ \E i \in 1..Len(calls), o \in ServiceOutcomes : ResolveAnalysis(i, o)
    \/ \E i \in 1..Len(calls) : GenerateContextInjection(i)
    \/ AnalyzerReset

\* A session operation of SpecBoth.
SessionOperation ==
    \/ StartInterview({"Measurement/Physics"}, "Both")
    \/ \E v \in {"Flow", "constructor"}, a \in OverlapAnswers :
          RecordProbe(v, "recall", a[1], a[2])
    \/ AdvanceVertex
    \/ SetPhase("retest")
    \/ MarkFilled("Flow")
    \/ MarkCorrected("Flow")
    \/ EndInterview

\* Every session operation of SpecBoth can be taken.
SessionOperationsEnabled ==
    /\ ENABLED StartInterview({"Measurement/Physics"}, "Both")
    /\ \A a \in OverlapAnswers : ENABLED RecordProbe("Flow", "recall", a[1], a[2])
    /\ ENABLED AdvanceVertex
    /\ ENABLED SetPhase("retest")
    /\ ENABLED MarkFilled("Flow")
    /\ ENABLED MarkCorrected("Flow")
    /\ ENABLED EndInterview

\* C14: a submission to the analyzer, the settling of its round trip with a
\* verdict or with the fallback, a generated text and the analyzer's reset
\* leave the session state as it is; the session operations leave the belief
\* state as it is; and every session operation is possible in every state,
\* with analyses open or not, and has the effect on the session state that
\* its arguments and the session state alone determine.
C14_SeparateStores ==
    /\ []SessionOperationsEnabled
    /\ [][ /\ AnalyzerStep => UNCHANGED currentState
           /\ SessionOperation => UNCHANGED beliefState
           /\ StartInterview({"Measurement/Physics"}, "Both") =>
                 (phase' = "probe" /\ currentVertexIndex' = 0 /\ probeHistory' = << >>)
           /\ \A a \in OverlapAnswers :
                 (RecordProbe("Flow", "recall", a[1], a[2]) /\ "Flow" \in DOMAIN vertices) =>
                    /\ Len(probeHistory') = Len(probeHistory) + 1
                    /\ probeHistory'[Len(probeHistory')].score = a[1]
                    /\ vertices'["Flow"].quadrant = classifyQuadrant(a[1], a[2])
                    /\ vertices'["Flow"].probeCount = vertices["Flow"].probeCount + 1
           /\ AdvanceVertex => currentVertexIndex' = currentVertexIndex + 1
           /\ SetPhase("retest") => phase' = "retest"
           /\ (MarkFilled("Flow") /\ "Flow" \in DOMAIN vertices) => vertices'["Flow"].filled
           /\ (MarkCorrected("Flow") /\ "Flow" \in DOMAIN vertices) => vertices'["Flow"].corrected
           /\ EndInterview => (phase' = "idle" /\ vertexQueue' = << >> /\ vertices' = << >>)
         ]_vars

\* C14 witness: the session recorded an unconfident 4 on a vertex, the analysis
\* of that vertex has resolved to another quadrant and its text was generated,
\* and the session's VertexState still carries the session's own quadrant.
C14_Witness ==
    /\ Len(probeHistory) = 1
    /\ "Flow" \in DOMAIN vertices
    /\ vertices["Flow"].quadrant = "UNDERCONFIDENT"
    /\ Len(calls) = 1
    /\ calls[1].status = "resolved"
    /\ calls[1].result[1].quadrant = "HYPERCORRECTION_TARGET"
    /\ injection # << >>
    /\ phase = "retest"

\* C15: a probe with a score <= 2 and confident = true on a queued vertex
\* leaves its quadrant at HYPERCORRECTION_TARGET and the vertex among
\* getHypercorrectionTargets(); markCorrected on a vertex that is such a target
\* sets corrected and leaves its quadrant, bestScore, probeCount, probedLayers
\* and filled flag alone, so the vertex is still among the targets.
C15_HypercorrectionScenario ==
    [][ /\ \A v \in Range(vertexQueue), l \in LayerInputs, a \in AnswerInputs :
              (a[1] <= 2 /\ a[2] /\ RecordProbe(v, l, a[1], a[2])) =>
                 /\ vertices'[v].quadrant = "HYPERCORRECTION_TARGET"
                 /\ v \in getHypercorrectionTargets(vertices')
        /\ \A v \in Range(vertexQueue) \cap VertexInputs :
              (v \in getHypercorrectionTargets(vertices) /\ MarkCorrected(v)) =>
                 /\ vertices'[v].corrected
                 /\ vertices'[v].quadrant = "HYPERCORRECTION_TARGET"
                 /\ vertices'[v].bestScore = vertices[v].bestScore
                 /\ vertices'[v].probeCount = vertices[v].probeCount
                 /\ vertices'[v].probedLayers = vertices[v].probedLayers
                 /\ vertices'[v].filled = vertices[v].filled
                 /\ v \in getHypercorrectionTargets(vertices')
      ]_vars

\* C15 witness: a vertex probed once with a confident 2 was marked corrected
\* and is still a hypercorrection target.
C15_Witness ==
    /\ "Flow" \in Range(vertexQueue)
    /\ Len(probeHistory) = 1
    /\ probeHistory[1].score = 2 /\ probeHistory[1].confident
    /\ vertices["Flow"].corrected
    /\ vertices["Flow"].probeCount = 1
    /\ getHypercorrectionTargets(vertices) = { "Flow" }

\* the first vertex of the queue
FirstVertex == vertexQueue[1]

\* C16: the queue of a session started with body Both and no domain filter is
\* not empty; recordProbe(queue[0], recall, 4, confident) on the fresh session
\* leaves the vertex SOLID with bestScore 4; a second
\* recordProbe(queue[0], mechanism, 4, confident) makes isComplete(queue[0])
\* true with 2 of the 4 layers probed; advanceVertex then has queue[1] as the
\* current vertex, and getSessionSummary gives probed 1, strengths 1, gaps 0.
C16_EndToEndScenario ==
    [][ /\ StartInterview({}, "Both") => vertexQueue' # << >>
        /\ ( /\ vertexQueue # << >>
             /\ probeHistory = << >>
             /\ RecordProbe(FirstVertex, "recall", 4, TRUE) ) =>
              /\ vertices'[FirstVertex].quadrant = "SOLID"
              /\ vertices'[FirstVertex].bestScore = 4
              /\ ~isVertexLayerComplete(vertices', probeHistory', FirstVertex)
        /\ ( /\ vertexQueue # << >>
             /\ probeHistory = << ProbeResult(FirstVertex, "recall", 4, TRUE) >>
             /\ RecordProbe(FirstVertex, "mechanism", 4, TRUE) ) =>
              /\ isVertexLayerComplete(vertices', probeHistory', FirstVertex)
              /\ Len(vertices'[FirstVertex].probedLayers) = 2
        /\ ( /\ vertexQueue # << >>
             /\ probeHistory = << ProbeResult(FirstVertex, "recall", 4, TRUE),
                                  ProbeResult(FirstVertex, "mechanism", 4, TRUE) >>
             /\ currentVertexIndex = 0
             /\ AdvanceVertex ) =>
              /\ Len(vertexQueue) >= 2
              /\ currentVertex(vertexQueue', currentVertexIndex') = vertexQueue[2]
              /\ getSessionSummary(vertices', phase').probed = 1
              /\ getSessionSummary(vertices', phase').strengths = 1
              /\ getSessionSummary(vertices', phase').gaps = 0
      ]_vars

\* C16 witness: the scenario has run: two confident 4s on the first vertex,
\* at recall and mechanism, and the pointer advanced to the second vertex.
C16_Witness ==
    /\ Len(vertexQueue) = 11
    /\ probeHistory = << ProbeResult("Flow", "recall", 4, TRUE),
                         ProbeResult("Flow", "mechanism", 4, TRUE) >>
    /\ currentVertexIndex = 1
    /\ currentVertex(vertexQueue, currentVertexIndex) = "Tau"
    /\ phase = "probe"
    /\ getSessionSummary(vertices, phase).strengths = 1

\* The position of a vertex in the catalog's priority order.
CatalogIndex(v) == CHOOSE i \in 1..Len(DEFAULT_PRIORITY) : DEFAULT_PRIORITY[i] = v

\* The weight the claim gives a vertex for a body, in tenths: the catalog's
\* entry, 1.0 where there is none.
WeightFor(v, body) ==
    IF v \in { "HendersonHasselbalch", "MichaelisMenten", "BeerLambert" } THEN 10
    ELSE IF body = "CICM" THEN COLLEGE_WEIGHTS[v].cicm ELSE COLLEGE_WEIGHTS[v].anzca

\* C17: for the body CICM or ANZCA the queue built for a domain filter holds
\* the filtered catalog, each vertex once, in non-increasing weight for that
\* body (1.0 without a weight entry), two vertices of equal weight in their
\* catalog order; and it is the queue another call with the same arguments
\* returns, whatever the state.
C17_QueueStableSort ==
    [][ \A d \in QueueDomains, c \in { "CICM", "ANZCA" } :
          StartInterview(d, c) =>
             /\ Range(vertexQueue') = { v \in Range(DEFAULT_PRIORITY) : InDomains(v, d) }
             /\ NoDuplicates(vertexQueue')
             /\ \A i, j \in 1..Len(vertexQueue') :
                   i < j =>
                      /\ WeightFor(vertexQueue'[i], c) >= WeightFor(vertexQueue'[j], c)
                      /\ WeightFor(vertexQueue'[i], c) = WeightFor(vertexQueue'[j], c) =>
                            CatalogIndex(vertexQueue'[i]) < CatalogIndex(vertexQueue'[j])
             /\ vertexQueue' = buildVertexQueue(d, c)
      ]_vars

\* C17 witness: the ANZCA queue of the whole catalog: the 1.2s, then the 1.0s,
\* then the 0.8s, each group in catalog order.
C17_Witness ==
    vertexQueue = << "Tau", "Cl", "Nernst",
                     "Flow", "Hill", "Laplace", "HendersonHasselbalch",
                     "MichaelisMenten", "BeerLambert",
                     "Fick", "Starling" >>

\* C18: the phase changes only by setPhase, initSession or reset, or by an
\* advanceVertex that takes the pointer to the end of the queue and the phase
\* to fill; an advanceVertex that leaves the pointer inside the queue leaves
\* the phase as it is.
C18_PhaseOnlyByCaller ==
    [][ phase' # phase =>
          \/ \E p \in PhaseInputs : SetPhase(p)
          \/ \E d \in StartDomains, c \in StartColleges : StartInterview(d, c)
          \/ EndInterview
          \/ /\ AdvanceVertex
             /\ phase' = "fill"
             /\ currentVertexIndex' >= Len(vertexQueue)
      ]_vars

\* The aggregates the claim gives for a layer list: the mean score in tenths
\* and the share of layers with (score >= 3) = confident in hundredths, both
\* rounded half up.
MeanTenths(layers) == (20 * SumScores(layers) + Len(layers)) \div (2 * Len(layers))

CalibratedShare(layers) ==
    (200 * Cardinality({ i \in 1..Len(layers) : (layers[i].score >= 3) = layers[i].confident })
       + Len(layers)) \div (2 * Len(layers))

\* C19: a submission to analyzeProbe appends its LayerProbe to the vertex's
\* accumulator and recomputes overallStrength and confidenceCalibration before
\* the round trip is awaited, and the settling of a round trip, with a verdict,
\* an exception or unparseable text, leaves the layers and both aggregates of
\* every accumulator in place.
C19_AccumulatorRetained ==
    [][ /\ \A v \in AnalyzerVertices, l \in AnalyzerLayers, a \in AnalyzerAnswers :
              AnalyzeProbe(v, l, a[1], a[2]) =>
                 /\ calls'[Len(calls')].status = "pending"
                 /\ v \in DOMAIN vertexBeliefs'
                 /\ vertexBeliefs'[v].layers =
                       Append(IF v \in DOMAIN vertexBeliefs THEN vertexBeliefs[v].layers
                              ELSE << >>,
                              LayerProbe(l, a[1], a[2]))
                 /\ vertexBeliefs'[v].overallStrength = MeanTenths(vertexBeliefs'[v].layers)
                 /\ vertexBeliefs'[v].confidenceCalibration =
                       CalibratedShare(vertexBeliefs'[v].layers)
        /\ (\E i \in 1..Len(calls), o \in ServiceOutcomes : ResolveAnalysis(i, o)) =>
              \A v \in DOMAIN vertexBeliefs :
                 /\ v \in DOMAIN vertexBeliefs'
                 /\ vertexBeliefs'[v].layers = vertexBeliefs[v].layers
                 /\ vertexBeliefs'[v].overallStrength = vertexBeliefs[v].overallStrength
                 /\ vertexBeliefs'[v].confidenceCalibration =
                       vertexBeliefs[v].confidenceCalibration
      ]_vars

\* The probes recordProbe has logged for v, as the analyzer would hold them.
ProbesLogged(v) ==
    [ i \in 1..Len(getVertexProbes(probeHistory, v)) |->
         LayerProbe(getVertexProbes(probeHistory, v)[i].layer,
                    getVertexProbes(probeHistory, v)[i].score,
                    getVertexProbes(probeHistory, v)[i].confident) ]

\* C20: whenever recordProbe and analyzeProbe have been given the same
\* sequence of probes of a queued vertex, isVertexLayerComplete and the
\* analyzer's isVertexComplete agree on it.
C20_CompletionAgrees ==
    \A v \in Range(vertexQueue) :
       ( /\ v \in DOMAIN vertexBeliefs
         /\ vertexBeliefs[v].layers = ProbesLogged(v) ) =>
          (isVertexLayerComplete(vertices, probeHistory, v)
              <=> isVertexComplete(vertexBeliefs, v))

-----------------------------------------------------------------------------
(* C21 *)

CanonicalOrder == << "recall", "mechanism", "clinical", "quantitative" >>

\* the first layer of the canonical order that is not in recorded, "null"
\* when there is none
FirstMissing(recorded) ==
    IF \A i \in 1..Len(CanonicalOrder) : CanonicalOrder[i] \in recorded THEN "null"
    ELSE CanonicalOrder[CHOOSE i \in 1..Len(CanonicalOrder) :
                           /\ CanonicalOrder[i] \notin recorded
                           /\ \A j \in 1..(i - 1) : CanonicalOrder[j] \in recorded]

\* the layers the session has recorded for v
FastLayers(v) ==
    IF v \in DOMAIN vertices THEN Range(vertices[v].probedLayers) ELSE {}

\* the layers the analyzer has recorded for v
SlowLayers(v) ==
    IF v \in DOMAIN vertexBeliefs
    THEN { vertexBeliefs[v].layers[i].layer : i \in 1..Len(vertexBeliefs[v].layers) }
    ELSE {}

NextLayerInOrder ==
    /\ getNextUnprobedLayer(vertices, "Flow") = FirstMissing(FastLayers("Flow"))
    /\ (getNextUnprobedLayer(vertices, "Flow") = "null") <=> (FastLayers("Flow") = VALID_LAYERS)
    /\ getNextLayer(vertexBeliefs, "Flow") = FirstMissing(SlowLayers("Flow"))

\* C21: nextUnprobedLayer of the session and the suggested next layer of an
\* analysis are the first layer of recall, mechanism, clinical, quantitative
\* that their own store has not recorded for the vertex, null exactly when
\* all four are recorded, and probing a layer that is already recorded leaves
\* the result as it was.
C21_NextLayerPolicy ==
    /\ []NextLayerInOrder
    /\ [][ /\ \A i \in 1..Len(calls) :
                 (calls[i].status = "pending" /\ calls'[i].status = "resolved")
                 => LET next == calls'[i].result[1].suggestedNextLayer
                        recorded == SlowLayers(calls[i].params.vertex)'
                    IN /\ next = FirstMissing(recorded)
                       /\ (next = "null") <=> (recorded = VALID_LAYERS)
           /\ (/\ Len(probeHistory') = Len(probeHistory) + 1
               /\ probeHistory'[Len(probeHistory')].layer \in FastLayers("Flow"))
              => getNextUnprobedLayer(vertices', "Flow")
                    = getNextUnprobedLayer(vertices, "Flow")
           /\ (/\ Len(calls') = Len(calls) + 1
               /\ calls'[Len(calls')].params.layer \in SlowLayers("Flow"))
              => getNextLayer(vertexBeliefs', "Flow")
                    = getNextLayer(vertexBeliefs, "Flow") ]_vars

\* both stores have recorded all four layers, an analysis that settled
\* before the last layer was recorded suggests a layer and one that settled
\* after it suggests none
C21_Witness ==
    /\ "Flow" \in DOMAIN vertices
    /\ Len(probeHistory) = 4
    /\ getNextUnprobedLayer(vertices, "Flow") = "null"
    /\ \E i, j \in 1..Len(calls) :
          /\ calls[i].status = "resolved"
          /\ calls[i].result[1].suggestedNextLayer = "null"
          /\ calls[j].status = "resolved"
          /\ calls[j].result[1].suggestedNextLayer = "quantitative"

-----------------------------------------------------------------------------
(* C22 *)

\* the integer nearest to tenths / 10, the upper one of two
Nearest(tenths) ==
    CHOOSE n \in -10..10 : 10 * n - 5 <= tenths /\ tenths < 10 * n + 5

Clamped(n) == IF n < 1 THEN 1 ELSE IF n > 5 THEN 5 ELSE n

-----------------------------------------------------------------------------
(* C23 *)

\* the misconceptions the analyzer knows for v
Known(v) ==
    IF v \in DOMAIN vertexBeliefs THEN vertexBeliefs[v].knownMisconceptions ELSE << >>

KnownWithoutDuplicates ==
    \A v \in OverlapVertices : NoDuplicates(Known(v))

-----------------------------------------------------------------------------
(* C24 *)

\* the calls are on vertices that differ from one another
OnDifferentVertices ==
    \A i, j \in 1..Len(calls) : i # j => calls[i].params.vertex # calls[j].params.vertex

\* what one call alone leaves in the accumulator of its vertex
AloneBeliefs(c) ==
    [ layers |-> << LayerProbe(c.params.layer, c.params.rawScore, c.params.confident) >>,
      overallStrength |-> 10 * c.params.rawScore,
      confidenceCalibration |->
          IF (c.params.rawScore >= 3) = c.params.confident THEN 100 ELSE 0,
      knownMisconceptions |->
          IF c.status = "resolved" THEN c.result[1].misconceptions ELSE << >> ]

\* settling the round trips of calls i and j in either order gives the same
\* belief state
SettleCommutes(i, j, oi, oj) ==
    LET vi == calls[i].params.vertex
        vj == calls[j].params.vertex
    IN trackMisconceptions(trackMisconceptions(vertexBeliefs, vi, oi.misconceptions),
                           vj, oj.misconceptions)
       = trackMisconceptions(trackMisconceptions(vertexBeliefs, vj, oj.misconceptions),
                             vi, oi.misconceptions)

\* submitting probes on v and w in either order gives the same belief state
SubmitCommutes(v, w, a, b) ==
    LET pv == LayerProbe("recall", a[1], a[2])
        pw == LayerProbe("mechanism", b[1], b[2])
    IN storeLayerProbe(storeLayerProbe(vertexBeliefs, v, pv), w, pw)
       = storeLayerProbe(storeLayerProbe(vertexBeliefs, w, pw), v, pv)

\* C24: with calls on different vertices, the belief state holds for each
\* call's vertex what that call alone leaves there, whatever the order of
\* submission and of settling; and at every state, two submissions on
\* different vertices, and the settling of two round trips on different
\* vertices, give the same belief state in either order.
C24_DifferentVerticesCommute ==
    /\ OnDifferentVertices
       => /\ DOMAIN vertexBeliefs = { calls[i].params.vertex : i \in 1..Len(calls) }
          /\ \A i \in 1..Len(calls) :
                vertexBeliefs[calls[i].params.vertex] = AloneBeliefs(calls[i])
    /\ \A v, w \in OverlapVertices, a, b \in OverlapAnswers :
          v # w => SubmitCommutes(v, w, a, b)
    /\ \A i, j \in 1..Len(calls), oi, oj \in ServiceOutcomes :
          (/\ calls[i].params.vertex # calls[j].params.vertex
           /\ oi.kind = "verdict" /\ oj.kind = "verdict")
          => SettleCommutes(i, j, oi, oj)

\* the vertex submitted second is the first of the two in the other
\* submission order; both round trips have settled with misconceptions
C24_Witness ==
    /\ Len(calls) = 2
    /\ calls[1].params.vertex = "Tau"
    /\ calls[2].params.vertex = "Flow"
    /\ calls[1].status = "resolved" /\ calls[2].status = "resolved"
    /\ calls[1].result[1].misconceptions = << "m2", "m1" >>
    /\ calls[2].result[1].misconceptions = << "m1" >>
    /\ Len(vertexBeliefs["Flow"].layers) = 1
    /\ Len(vertexBeliefs["Tau"].layers) = 1

-----------------------------------------------------------------------------
(* C25 *)

\* the number of LayerProbes whose confidence matches their correctness
Calibrated(layers) ==
    Cardinality({ i \in 1..Len(layers) : (layers[i].score >= 3) = layers[i].confident })

Abs(n) == IF n < 0 THEN -n ELSE n

\* C25 as stated: the confidenceCalibration of a vertex that has LayerProbes
\* lies in [0,1] and is the fraction of them whose (score >= 3) equals the
\* confident flag (the stored value is in hundredths).
C25_CalibrationIsFraction ==
    \A v \in DOMAIN vertexBeliefs :
       LET layers == vertexBeliefs[v].layers
           stored == vertexBeliefs[v].confidenceCalibration
       IN /\ stored \in 0..100
          /\ stored * Len(layers) = 100 * Calibrated(layers)

\* C25, amended: the confidenceCalibration of a vertex that has LayerProbes
\* lies in [0,1] and is the fraction of them whose (score >= 3) equals the
\* confident flag, rounded to the nearest hundredth; it is a function of the
\* accumulated list alone.
C25_CalibrationIsRoundedFraction ==
    \A v \in DOMAIN vertexBeliefs :
       LET layers == vertexBeliefs[v].layers
           stored == vertexBeliefs[v].confidenceCalibration
       IN /\ stored \in 0..100
          /\ 2 * Abs(stored * Len(layers) - 100 * Calibrated(layers)) <= Len(layers)

\* three LayerProbes of which one is calibrated: the stored value is 0.33
C25_Witness ==
    /\ "Flow" \in DOMAIN vertexBeliefs
    /\ Len(vertexBeliefs["Flow"].layers) = 3
    /\ Calibrated(vertexBeliefs["Flow"].layers) = 1
    /\ vertexBeliefs["Flow"].confidenceCalibration = 33

-----------------------------------------------------------------------------
(* C26 *)

KeysAreQueue ==
    /\ DOMAIN vertices = Range(vertexQueue)
    /\ NoDuplicates(vertexQueue)

\* C26: the keys of the vertex map are the names of the queue, the queue
\* holds no name twice, and only session start and reset change the queue or
\* the keys.
C26_KeysAreQueue ==
    /\ []KeysAreQueue
    /\ [][ (\/ vertexQueue' # vertexQueue
            \/ DOMAIN vertices' # DOMAIN vertices)
           => \/ EndInterview
              \/ \E d \in StartDomains, c \in StartColleges : StartInterview(d, c) ]_vars

-----------------------------------------------------------------------------
(* C27 *)

\* the catalog vertices a request for domains asks for
Requested(domains) ==
    { v \in Range(DEFAULT_PRIORITY) :
         domains = {} \/ \E tag \in VERTEX_DATA[v] : tag \in domains }

\* C27: the queue a session is started with holds, each once, the catalog
\* vertices with a domain tag among the requested ones (every catalog vertex
\* for an empty request) and no other name; for the body Both they are in
\* catalog order; and the vertex map has for each of them one VertexState
\* with bestScore 0, no quadrant, probeCount 0, filled and corrected false and
\* no probed layer.
C27_QueueAndFreshStates ==
    [][ \A d \in QueueDomains, c \in QueueColleges :
          StartInterview(d, c) =>
             /\ Range(vertexQueue') = Requested(d)
             /\ Len(vertexQueue') = Cardinality(Requested(d))
             /\ c = "Both" =>
                   \A i, j \in 1..Len(vertexQueue') :
                      i < j => CatalogIndex(vertexQueue'[i]) < CatalogIndex(vertexQueue'[j])
             /\ DOMAIN vertices' = Requested(d)
             /\ \A v \in Requested(d) :
                   /\ vertices'[v].bestScore = 0
                   /\ vertices'[v].quadrant = "null"
                   /\ vertices'[v].probeCount = 0
                   /\ ~vertices'[v].filled
                   /\ ~vertices'[v].corrected
                   /\ vertices'[v].probedLayers = << >>
      ]_vars

\* the Both queue for pharmacology and measurement: eight vertices of the
\* catalog in catalog order, Flow among them for its second tag only
C27_Witness ==
    /\ vertexQueue = << "Flow", "Tau", "Hill", "Cl", "Nernst", "Laplace",
                        "MichaelisMenten", "BeerLambert" >>
    /\ DOMAIN vertices = Range(vertexQueue)
    /\ vertices["Flow"].probeCount = 0

-----------------------------------------------------------------------------
(* C28 *)

\* the entry of v carries the flag, set
Flagged(vs, v, flag) ==
    /\ v \in DOMAIN vs
    /\ flag \in DOMAIN vs[v]
    /\ vs[v][flag]

\* C28: in every step of a session that neither starts nor ends it, a filled
\* or corrected flag that is set stays set, a probe recorded for the vertex
\* included, and a flag becomes set only in a markFilled, respectively
\* markCorrected, of that vertex.
C28_FlagsSticky ==
    [][ SessionStep =>
          \A v \in DOMAIN vertices \cup DOMAIN vertices' :
             /\ Flagged(vertices, v, "filled") => Flagged(vertices', v, "filled")
             /\ Flagged(vertices, v, "corrected") => Flagged(vertices', v, "corrected")
             /\ (~Flagged(vertices, v, "filled") /\ Flagged(vertices', v, "filled"))
                => v \in VertexInputs /\ MarkFilled(v)
             /\ (~Flagged(vertices, v, "corrected") /\ Flagged(vertices', v, "corrected"))
                => v \in VertexInputs /\ MarkCorrected(v)
      ]_vars

\* a vertex with both flags set and two probes recorded
C28_Witness ==
    /\ "Flow" \in Range(vertexQueue)
    /\ vertices["Flow"].filled
    /\ vertices["Flow"].corrected
    /\ vertices["Flow"].probeCount = 2
    /\ Len(probeHistory) = 2

-----------------------------------------------------------------------------
(* C29 *)

\* the vertices with a probe recorded
Probed == { v \in VertexStates(vertices) : vertices[v].probeCount > 0 }

\* C29: the summary counts the entries of the vertex map, the probed ones,
\* the results of getGaps, getStrengths and getHypercorrectionTargets (the
\* last at most the gaps) and the entries with the filled and the corrected
\* flag, gives the current phase, and its meanScore is the mean bestScore of
\* the probed vertices to the nearest tenth, 0 when none is probed.
C29_SummaryAgrees ==
    LET summary == getSessionSummary(vertices, phase)
    IN /\ summary.totalVertices = Cardinality(DOMAIN vertices)
       /\ summary.probed = Cardinality(Probed)
       /\ summary.gaps = Cardinality(getGaps(vertices))
       /\ summary.strengths = Cardinality(getStrengths(vertices))
       /\ summary.hypercorrectionTargets = Cardinality(getHypercorrectionTargets(vertices))
       /\ summary.hypercorrectionTargets <= summary.gaps
       /\ summary.filled
             = Cardinality({ v \in DOMAIN vertices : Flagged(vertices, v, "filled") })
       /\ summary.corrected
             = Cardinality({ v \in DOMAIN vertices : Flagged(vertices, v, "corrected") })
       /\ summary.phase = phase
       /\ IF Probed = {} THEN summary.meanScore = 0
          ELSE 2 * Abs(summary.meanScore * Cardinality(Probed)
                          - 10 * SumBestScores(vertices, Probed))
                  <= Cardinality(Probed)

\* three vertices probed with best scores 1, 2 and 2: the mean 1.67 is
\* reported as 1.7; two entries are marked filled, one of them not a vertex
\* of the queue
C29_Witness ==
    /\ getSessionSummary(vertices, phase).probed = 3
    /\ getSessionSummary(vertices, phase).meanScore = 17
    /\ getSessionSummary(vertices, phase).totalVertices = 4
    /\ getSessionSummary(vertices, phase).filled = 2
    /\ getSessionSummary(vertices, phase).gaps = 3
    /\ getSessionSummary(vertices, phase).hypercorrectionTargets = 2

-----------------------------------------------------------------------------
(* C30 *)

\* what the queries return in the current state: the three projections, the
\* summary and, for each vertex of the map, isComplete and nextUnprobedLayer
QueryResults ==
    << getGaps(vertices), getStrengths(vertices), getHypercorrectionTargets(vertices),
       getSessionSummary(vertices, phase),
       [ v \in VertexStates(vertices) |->
            << isVertexLayerComplete(vertices, probeHistory, v),
               getNextUnprobedLayer(vertices, v) >> ] >>

\* C30: a call of getGaps, getStrengths, getHypercorrectionTargets,
\* getSessionSummary, isComplete or nextUnprobedLayer leaves the session
\* state as it is, also when it throws, and what the queries return after it
\* is what they returned before it.
C30_QueriesReadOnly ==
    [][ (GetState \/ \E v \in VertexInputs : QueryLayers(v))
        => /\ UNCHANGED currentState
           /\ QueryResults' = QueryResults ]_vars

\* the log is full, so that no probe can be submitted, and the last call
\* threw: it was a layer query for a name inherited from Object.prototype;
\* the projections are not empty
C30_Witness ==
    /\ Len(probeHistory) = MaxLog
    /\ threw
    /\ getGaps(vertices) # {}
    /\ getStrengths(vertices) # {}

-----------------------------------------------------------------------------
(* C31 *)

\* the calls on v that analyzeProbe accepted
Accepted(v) == SelectSeq(CallsOn(v), LAMBDA c : c.status # "rejected")

\* The calls on v made since the last reset: a reset empties the accumulator
\* and every accepted call appends one LayerProbe, so they are as many of the
\* latest accepted calls as the accumulator has LayerProbes.
SinceReset(v) ==
    LET n == Len(Accepted(v))
        k == IF v \in DOMAIN vertexBeliefs THEN Len(vertexBeliefs[v].layers) ELSE 0
    IN SubSeq(Accepted(v), n - k + 1, n)

\* C31: the belief state holds, for every vertex, the LayerProbes of the
\* calls made since the last reset and no misconception but those of the
\* verdicts returned to these calls: nothing of a call made before the reset
\* is in it, whenever that call's round trip settles.
C31_NoStaleBeliefs ==
    \A v \in DOMAIN vertexBeliefs :
       LET current == SinceReset(v)
       IN /\ vertexBeliefs[v].layers =
                [ i \in 1..Len(current) |->
                     LayerProbe(current[i].params.layer, current[i].params.rawScore,
                                current[i].params.confident) ]
          /\ Range(vertexBeliefs[v].knownMisconceptions) \subseteq
                UNION { Range(current[i].result[1].misconceptions) :
                           i \in { j \in 1..Len(current) : current[j].status = "resolved" } }

-----------------------------------------------------------------------------
(* C32 *)

\* the largest of the scores logged for v, 0 when there is none
MaxLogged(v) ==
    LET scores == Range(ScoresOf(v))
    IN IF scores = {} THEN 0 ELSE CHOOSE m \in scores : \A s \in scores : s <= m

\* C32: every vertex of the queue has as probeCount the number of its log
\* entries, as bestScore the largest score among them (0 without an entry),
\* as probedLayers their layers, each once, and as quadrant the quadrant of
\* its latest entry, which is null exactly when it has no entry.
C32_StateMatchesLog ==
    \A v \in Range(vertexQueue) :
       LET probes == getVertexProbes(probeHistory, v)
       IN /\ vertices[v].probeCount = Len(probes)
          /\ vertices[v].bestScore = MaxLogged(v)
          /\ Range(vertices[v].probedLayers) = { probes[i].layer : i \in 1..Len(probes) }
          /\ NoDuplicates(vertices[v].probedLayers)
          /\ vertices[v].quadrant =
                IF probes = << >> THEN "null" ELSE probes[Len(probes)].quadrant
          /\ (vertices[v].quadrant = "null") <=> (vertices[v].probeCount = 0)

-----------------------------------------------------------------------------
(* C33 *)

\* C33: getGaps and getStrengths have no vertex in common, and the gaps and
\* the strengths of the summary together are at most the probed vertices.
C33_GapsStrengthsDisjoint ==
    /\ getGaps(vertices) \cap getStrengths(vertices) = {}
    /\ getSessionSummary(vertices, phase).gaps + getSessionSummary(vertices, phase).strengths
          <= getSessionSummary(vertices, phase).probed

\* the score of the latest log entry of v
LatestScore(v) ==
    LET probes == getVertexProbes(probeHistory, v)
    IN probes[Len(probes)].score

\* C33, amended: gaps and strengths are probed vertices, and a vertex is in
\* both only when it has been probed at least twice, its latest probe scored
\* 2 or less and an earlier one 4 or more; so each of the two counts of the
\* summary is at most probed.
C33_OverlapOnlyAfterDrop ==
    /\ getGaps(vertices) \subseteq Probed
    /\ getStrengths(vertices) \subseteq Probed
    /\ getSessionSummary(vertices, phase).gaps <= getSessionSummary(vertices, phase).probed
    /\ getSessionSummary(vertices, phase).strengths
          <= getSessionSummary(vertices, phase).probed
    /\ \A v \in getGaps(vertices) \cap getStrengths(vertices) :
          /\ vertices[v].probeCount >= 2
          /\ LatestScore(v) <= 2
          /\ vertices[v].bestScore >= 4
          /\ \E i \in 1..(Len(getVertexProbes(probeHistory, v)) - 1) :
                getVertexProbes(probeHistory, v)[i].score >= 4

\* a vertex that scored 4 and then 1 is a gap and a strength at once
C33_Witness ==
    /\ "Flow" \in getGaps(vertices) \cap getStrengths(vertices)
    /\ vertices["Flow"].probeCount = 2
    /\ vertices["Flow"].bestScore = 4
    /\ LatestScore("Flow") = 1

-----------------------------------------------------------------------------
(* C34 *)

\* C34: the text generateContextInjection builds carries one of the two
\* directives, and it carries the completion notice whenever isVertexComplete
\* holds for the vertex's accumulator.
C34_InjectionFollowsPolicy ==
    [][ \A i \in 1..Len(calls) :
           GenerateContextInjection(i)
           => /\ injection'[1].directive \in { "Vertex complete", "DO NOT advance yet" }
              /\ isVertexComplete(vertexBeliefs, calls[i].params.vertex)
                 => injection'[1].directive = "Vertex complete" ]_vars

-----------------------------------------------------------------------------
(* C35 *)

\* C35: in every step of a session that neither starts nor ends it, a vertex
\* for which isComplete holds is one for which it holds afterwards.
C35_CompleteStaysComplete ==
    [][ SessionStep =>
          \A v \in VertexStates(vertices) :
             isVertexLayerComplete(vertices, probeHistory, v)
             => /\ v \in VertexStates(vertices')
                /\ isVertexLayerComplete(vertices', probeHistory', v) ]_vars

\* a vertex complete by two weak probes has been probed again, advanced
\* past and marked filled, and is complete still
C35_Witness ==
    /\ "Flow" \in Range(vertexQueue)
    /\ Len(getVertexProbes(probeHistory, "Flow")) = 3
    /\ probeHistory[1].score <= 2 /\ probeHistory[2].score <= 2
    /\ probeHistory[3].score = 3
    /\ vertices["Flow"].filled
    /\ isVertexLayerComplete(vertices, probeHistory, "Flow")

-----------------------------------------------------------------------------
(* C36 *)

\* a probe of any vertex of the queue is taken into the log
RecordProbeAccepted ==
    \A v \in LogVertices \cap Range(vertexQueue) :
       ENABLED (/\ RecordProbe(v, "recall", 3, FALSE)
                /\ Len(probeHistory') = Len(probeHistory) + 1)

\* C36: a recordProbe on a vertex of the queue is accepted in whatever phase
\* and wherever the pointer is; it appends one log entry and counts one probe
\* for the vertex, and leaves the phase, the pointer, the queue, the keys of
\* the vertex map, every other vertex's state and the vertex's own filled and
\* corrected flags as they are.
C36_RecordProbeFrame ==
    /\ []RecordProbeAccepted
    /\ [][ Len(probeHistory') = Len(probeHistory) + 1
           => LET v == probeHistory'[Len(probeHistory')].vertex
              IN /\ SubSeq(probeHistory', 1, Len(probeHistory)) = probeHistory
                 /\ v \in Range(vertexQueue)
                 /\ vertices'[v].probeCount = vertices[v].probeCount + 1
                 /\ phase' = phase
                 /\ currentVertexIndex' = currentVertexIndex
                 /\ vertexQueue' = vertexQueue
                 /\ DOMAIN vertices' = DOMAIN vertices
                 /\ \A w \in DOMAIN vertices \ {v} : vertices'[w] = vertices[w]
                 /\ vertices'[v].filled = vertices[v].filled
                 /\ vertices'[v].corrected = vertices[v].corrected ]_vars

\* the pointer has never left the first vertex, the second vertex has been
\* probed, and the first, marked filled and corrected, has been probed in a
\* phase other than probe
C36_Witness ==
    /\ phase = "retest"
    /\ currentVertexIndex = 0
    /\ "Laplace" \in Range(vertexQueue)
    /\ vertices["Laplace"].probeCount = 1
    /\ vertices["Flow"].probeCount = 2
    /\ vertices["Flow"].filled
    /\ vertices["Flow"].corrected

-----------------------------------------------------------------------------
(* C37 *)

\* the session is in phase fill and has no current vertex
QueueExhausted ==
    /\ vertexQueue # << >>
    /\ phase = "fill"
    /\ currentVertex(vertexQueue, currentVertexIndex) = Undefined

\* at most four probes for each vertex and one advance for each vertex
WithinBudget ==
    /\ \A v \in Range(vertexQueue) : vertices[v].probeCount <= 4
    /\ Len(probeHistory) <= 4 * Len(vertexQueue)
    /\ currentVertexIndex <= Len(vertexQueue)

\* C37: the caller that probes the current vertex at its next unprobed layer
\* until it is complete and then advances reaches phase fill with no current
\* vertex, and never makes more than four probes or one advance for a vertex
\* of the queue.
C37_CallerTerminates ==
    /\ <>QueueExhausted
    /\ []WithinBudget

\* the longest run: four probes on each of the three vertices
C37_Witness ==
    /\ QueueExhausted
    /\ Len(vertexQueue) = 3
    /\ Len(probeHistory) = 12
    /\ currentVertexIndex = 3

-----------------------------------------------------------------------------
\* the state INITIAL_STATE describes: no session is active
IdleState ==
    /\ phase = "idle"
    /\ vertexQueue = << >>
    /\ currentVertexIndex = 0
    /\ vertices = << >>
    /\ probeHistory = << >>

\* C38: while no session is active (phase idle, empty queue, as initially and
\* after a reset), a recordProbe, advanceVertex, markFilled or markCorrected
\* call leaves the state equal to the initial idle state.
C38_IdleNoOps ==
    [][ ( /\ IdleState
          /\ \/ \E v \in VertexInputs, l \in LayerInputs, a \in AnswerInputs :
                   RecordProbe(v, l, a[1], a[2])
             \/ AdvanceVertex
             \/ \E v \in VertexInputs : MarkFilled(v)
             \/ \E v \in VertexInputs : MarkCorrected(v) )
        => IdleState' ]_vars

====
